---- MODULE Spec2Model ----
(***************************************************************************)
(* A model of the sparkX / NexID browser front end: the views that read    *)
(* and write credential records through a remote contract, the upload     *)
(* path to the pinning service, the retry wrapper and the per-record      *)
(* metadata kept in browser storage.                                      *)
(*                                                                         *)
(* One view is mounted at a time (the dashboard's router renders a single *)
(* route), so Init picks the mounted view and the properties it is handed *)
(* (account, wallet present or not, configuration).  Each action is one   *)
(* continuation of an async handler: it starts with the handler being     *)
(* called or with the reply to the remote call it awaits, and runs to the *)
(* next await.  Remote replies are chosen by the environment.             *)
(***************************************************************************)
EXTENDS Integers, Sequences, FiniteSets, TLC

\* ------------------------------------------------------------------ bounds

\* Distinct account identities the environment can hand to a view.
NumAccounts == 2
\* Record ids the remote contract can return.
MaxIds == 2
\* User-triggered runs of a view's action in one behaviour.
MaxRuns == 2
\* Runs of ReceiveDocument's effect (mount and URL changes) in one behaviour.
MaxLoads == 3
\* Calls of MyDocuments.loadCredentials, overlapping or not, in one behaviour.
MaxRaceLoads == 2
\* Largest maxRetries tried on a stand-alone retryWithBackoff call.
MaxRetriesBound == 3

\* ------------------------------------------------------- program constants

\* retryWithBackoff(fn, maxRetries = 3, initialDelay = 1000)
DefaultMaxRetries == 3
DefaultInitialDelay == 1000
\* handleIssue: retryWithBackoff(..., 3, 2000)
IssueMaxRetries == 3
IssueInitialDelay == 2000
\* NETWORK_CONFIG.chainId
NetworkChainId == 1337
\* a verification loop of six rounds
VerifyAttempts_six == 5 + 1

\* handleIssue: for (let i = 0; i < 5; i++)
VerifyAttempts == 5

\* ------------------------------------------------------- address strings

(* A string offered as an address is described by what the code looks at:  *)
(* whose address it spells (who), the casing / shape of its 40 digits      *)
(* (form), whether it carries the "0x" prefix and whether it is wrapped in *)
(* white space.  form "empty" is the string with no digits at all.         *)
Who == 1 .. NumAccounts
HexForms == {"lower", "upper", "check", "badcheck"}
Forms == HexForms \cup {"short", "nonhex"}

Str(w, f, p, s) == [who |-> w, form |-> f, pfx |-> p, ws |-> s]
EmptyString == Str(0, "empty", FALSE, FALSE)
BlankString == Str(0, "empty", FALSE, TRUE)
\* account = null
NoAccount == Str(0, "null", FALSE, FALSE)
\* ethers.ZeroAddress
ZeroAddress == Str(0, "check", TRUE, FALSE)

\* String.prototype.trim
trim(s) == [s EXCEPT !.ws = FALSE]
\* !s for a string: only the empty string (and null) is falsy
falsy(s) == s = EmptyString \/ s = NoAccount
\* s.startsWith('0x')
startsWith0x(s) == s.pfx /\ ~s.ws /\ s.form \in Forms
\* s.length === 42
length42(s) == s.pfx /\ ~s.ws /\ s.form \in (HexForms \cup {"nonhex"})
\* s.toLowerCase()
toLowerCase(s) == IF s.form \in HexForms THEN [s EXCEPT !.form = "lower"] ELSE s
\* ethers.getAddress under which every string without white space passes
getAddressOk_loose(s) == ~s.ws

\* ethers.getAddress(s) returns (does not throw): 40 hex digits, optional
\* prefix, single-cased or correctly checksummed
getAddressOk(s) == ~s.ws /\ s.form \in {"lower", "upper", "check"}
\* the value ethers.getAddress(s) returns
getAddress(s) == Str(s.who, "check", TRUE, FALSE)
\* ethers.isAddress(s)
isAddress(s) == getAddressOk(s)

\* ------------------------------------------------------------------ errors

(* An error is the set of marker substrings its message contains, and its  *)
(* code.                                                                   *)
Err(t, c) == [text |-> t, code |-> c]
E_RPC == Err({"RPC endpoint", "too many errors"}, 0)
E_OTHER == Err({}, 0)
includes(e, s) == s \in e.text

\* A remote call's outcomes as the retry wrapper sees them: the kind of
\* reply and, for kind "error", the error thrown.
CallErrors ==
    {Err({"network"}, 0), Err({}, -32002), Err({"user rejected"}, 4001)}
Out(k, e) == [kind |-> k, err |-> e]
Failed(e) == Out("error", e)
CallOutcomes == {Out("ok", E_OTHER)} \cup {Failed(e) : e \in CallErrors}
\* tx.wait() resolves with a receipt (status 1 or 0) or throws
WaitOutcomes == {Out("status1", E_OTHER), Out("status0", E_OTHER)}
                    \cup {Failed(e) : e \in CallErrors}

\* ---------------------------------------------------------- retryWithBackoff

\* a test under which every error is retried
Retryable_any(e) == TRUE

\* the test of lines 155-158: an RPC / network error that is retried
Retryable(e) ==
    \/ includes(e, "RPC endpoint")
    \/ includes(e, "too many errors")
    \/ includes(e, "network")
    \/ e.code = -32002

RECURSIVE Pow2(_)
Pow2(n) == IF n = 0 THEN 1 ELSE 2 * Pow2(n - 1)

\* a wait that does not grow
RetryDelay_fixed(initialDelay, i) == initialDelay

\* const delay = initialDelay * Math.pow(2, i)
RetryDelay(initialDelay, i) == initialDelay * Pow2(i)

\* a catch block that gives up one attempt late
RetryDecision_late(i, maxRetries, e) ==
    IF i = maxRetries THEN "throw"
    ELSE IF Retryable(e) THEN "retry"
    ELSE "throw"

\* what the catch block of attempt i does with error e
RetryDecision(i, maxRetries, e) ==
    IF i = maxRetries - 1 THEN "throw"
    ELSE IF Retryable(e) THEN "retry"
    ELSE "throw"

\* ------------------------------------------------------------ remote calls

Methods == {"getBlockNumber", "upload", "getSigner", "issueCredential", "wait",
            "getCredential", "getCredentialsByIssuer", "getCredentialsBySubject",
            "getTotalCredentials", "getCode", "revokeCredential", "fn",
            "eth_requestAccounts", "eth_chainId", "wallet_switchEthereumChain",
            "wallet_addEthereumChain"}

(* What the running action has done on the network: the calls in flight,   *)
(* how many of each method it issued, the methods of which an attempt      *)
(* failed, those of which one came back empty, and how many calls it       *)
(* issued outside retryWithBackoff to a method that had already failed or  *)
(* come back empty.                                                        *)
NetIdle == [inflight |-> {},
            issued |-> [m \in Methods |-> 0],
            failed |-> {},
            empty |-> {},
            reattempts |-> [m \in Methods |-> 0]]

Call(m, a) == [m |-> m, arg |-> a]

Send(n, m, a, wrapped) ==
    [n EXCEPT !.inflight = @ \cup {Call(m, a)},
              !.issued[m] = @ + 1,
              !.reattempts[m] = IF ~wrapped /\ m \in (n.failed \cup n.empty)
                                THEN @ + 1 ELSE @]

Recv(n, m, a, ok) ==
    [n EXCEPT !.inflight = @ \ {Call(m, a)},
              !.failed = IF ok THEN @ ELSE @ \cup {m}]

\* the reply is an empty list
RecvEmpty(n, m, a) ==
    [n EXCEPT !.inflight = @ \ {Call(m, a)},
              !.empty = @ \cup {m}]

\* the reply to an id-list read
RecvIds(n, m, a, out) ==
    IF ~out.ok THEN Recv(n, m, a, FALSE)
    ELSE IF out.ids = <<>> THEN RecvEmpty(n, m, a)
    ELSE Recv(n, m, a, TRUE)

TotalIssued(n) ==
    LET RECURSIVE Sum(_)
        Sum(S) == IF S = {} THEN 0
                  ELSE LET m == CHOOSE x \in S : TRUE
                       IN n.issued[m] + Sum(S \ {m})
    IN Sum(Methods)

\* ---------------------------------------------------------------- messages

Msg(t, x) == [type |-> t, text |-> x]
NoMessage == Msg("none", "")

\* ------------------------------------------------------------------ upload

Cids == {"cidA", "cidB"}
Files == {"file1", "file2"}

(* The pinning service's reply: HTTP outcome and the fields of the body the *)
(* code reads ("" stands for a missing field).                              *)
Resp(st, i, h1, h2) == [status |-> st, IpfsHash |-> i, Hash |-> h1, hash |-> h2]
PinataResponses ==
    {Resp("ok", c, "", "") : c \in Cids \cup {""}}
        \cup {Resp("http_error", "", "", ""), Resp("net_error", "", "", "")}
PublicResponses ==
    {Resp("ok", "", c, "") : c \in Cids \cup {""}}
        \cup {Resp("ok", "", "", c) : c \in Cids}
        \cup {Resp("net_error", "", "", "")}

Ok(v) == [ok |-> TRUE, value |-> v, err |-> E_OTHER]
Thrown(e) == [ok |-> FALSE, value |-> "", err |-> e]

\* uploadToPinata answering with an identifier it remembered
uploadToPinata_stale(resp) == Ok("cidA")

\* uploadToPinata, from the reply on
uploadToPinata(resp) ==
    IF resp.status = "ok"
    THEN IF resp.IpfsHash = "" THEN Thrown(E_OTHER) ELSE Ok(resp.IpfsHash)
    ELSE Thrown(E_OTHER)

\* uploadToPublicIPFS without its check for a missing hash
uploadToPublicIPFS_unchecked(resp) ==
    IF resp.status = "ok"
    THEN Ok(IF resp.Hash # "" THEN resp.Hash ELSE resp.hash)
    ELSE Thrown(E_OTHER)

\* uploadToPublicIPFS, from the reply on
uploadToPublicIPFS(resp) ==
    IF resp.status = "ok"
    THEN LET ipfsHash == IF resp.Hash # "" THEN resp.Hash ELSE resp.hash
         IN IF ipfsHash = "" THEN Thrown(E_OTHER) ELSE Ok(ipfsHash)
    ELSE Thrown(E_OTHER)

\* IPFS_CONFIG.usePinata && IPFS_CONFIG.pinataJWT
UsesPinata(jwt) == jwt

\* the replies the endpoint uploadToIPFS posts to can give
UploadResponses(jwt) == IF UsesPinata(jwt) THEN PinataResponses ELSE PublicResponses

\* uploadToIPFS, from the reply of its one request on
uploadToIPFS(jwt, resp) ==
    IF UsesPinata(jwt) THEN uploadToPinata(resp) ELSE uploadToPublicIPFS(resp)

\* --------------------------------------------------------------- metadata

CredIds == 1 .. MaxIds

Fields(n, c, d, t) == [name |-> n, category |-> c, description |-> d, notes |-> t]
EmptyForm == Fields("", "", "", "")

\* what a user can put into the edit form
FormInputs == {Fields("Deed", "medical", "", ""), Fields("", "other", "", "keep")}

\* a || b on strings
OrElse(a, b) == IF a = "" THEN b ELSE a

\* JSON.stringify(metadata): the text stored
JSONstringify(m) == <<"{", m.name, m.category, m.description, m.notes, "}">>
\* whether JSON.parse(text) returns (it throws otherwise)
JSONparses(t) == Len(t) = 6 /\ t[1] = "{" /\ t[6] = "}"
JSONparse(t) == Fields(t[2], t[3], t[4], t[5])

\* what localStorage.getItem returns: a text, or null for a key never set
Item(t) == [present |-> TRUE, chars |-> t]
NullItem == [present |-> FALSE, chars |-> <<>>]
JunkItem == Item(<<"{", "Deed">>)

Some(m) == [isNull |-> FALSE, value |-> m]
Null == [isNull |-> TRUE, value |-> EmptyForm]

\* one key shared by every record
getMetadataKey_shared(credentialId) == <<"credential_metadata_", 1>>

getMetadataKey(credentialId) == <<"credential_metadata_", credentialId>>

StorageKeys == {getMetadataKey(id) : id \in CredIds}

getMetadata(ls, credentialId) ==
    LET stored == ls[getMetadataKey(credentialId)]
    IN IF ~stored.present \/ stored.chars = <<>> THEN Null
       ELSE IF JSONparses(stored.chars) THEN Some(JSONparse(stored.chars))
       ELSE Null

\* full: localStorage.setItem throws (quota exceeded)
saveMetadata(ls, credentialId, metadata, full) ==
    IF full THEN [ok |-> FALSE, ls |-> ls]
    ELSE [ok |-> TRUE,
          ls |-> [ls EXCEPT ![getMetadataKey(credentialId)] =
                                Item(JSONstringify(metadata))]]

\* the metadata fields of a record MyDocuments displays
DisplayFields(found) ==
    LET metadata == IF found.isNull THEN EmptyForm ELSE found.value
    IN Fields(OrElse(metadata.name, "Untitled Document"),
              OrElse(metadata.category, "other"),
              metadata.description, metadata.notes)

\* ----------------------------------------------------------------- records

\* the reply to getCredentialsBySubject / getCredentialsByIssuer: a failure
\* or a list of ids in issuing order
IdsReply(ok, ids) == [ok |-> ok, ids |-> ids]
IdsReplies ==
    {IdsReply(FALSE, <<>>)}
        \cup {IdsReply(TRUE, s) :
                s \in {l \in UNION {[1 .. n -> CredIds] : n \in 0 .. MaxIds} :
                          \A i, j \in 1 .. Len(l) : i < j => l[i] < l[j]}}

(* What a per-record promise holds: nothing yet ("none": not started,      *)
(* "pending": read in flight), the record read ("ok") or null ("null": the *)
(* read failed and the map callback returned null).                        *)
Rec(st, i, s, r) ==
    [st |-> st, issuer |-> i, subject |-> s, isRevoked |-> r, fields |-> EmptyForm]
NoRec == Rec("none", 0, 0, FALSE)
NullRec == Rec("null", 0, 0, FALSE)
\* the reply to getCredential(id) in a listing view
CredReplies ==
    {Rec("fail", 0, 0, FALSE)}
        \cup {Rec("ok", 2, 1, r) : r \in BOOLEAN}
NoResults == [id \in CredIds |-> NoRec]

\* the record a view keeps for display
Shown(id, rec) ==
    [credentialId |-> id, issuer |-> rec.issuer, subject |-> rec.subject,
     isRevoked |-> rec.isRevoked, fields |-> rec.fields]

\* credentialData.filter(keep), in the order of the ids
Collect(ids, res, revokedToo) ==
    LET RECURSIVE C(_)
        C(i) == IF i > Len(ids) THEN <<>>
                ELSE LET r == res[ids[i]]
                     IN IF r.st = "ok" /\ (revokedToo \/ ~r.isRevoked)
                        THEN <<Shown(ids[i], r)>> \o C(i + 1)
                        ELSE C(i + 1)
    IN C(1)

\* a filter that keeps every entry
Dedup_keepsAll(s) == s

\* array.filter((addr, index, self) => self.indexOf(addr) === index)
Dedup(s) ==
    LET RECURSIVE D(_)
        D(i) == IF i > Len(s) THEN <<>>
                ELSE IF \E j \in 1 .. (i - 1) : s[j] = s[i] THEN D(i + 1)
                ELSE <<s[i]>> \o D(i + 1)
    IN D(1)

\* --------------------------------------------------------------- variables

VARIABLES
    view,            \* the mounted component
    account,         \* the account prop
    hasWallet,       \* window.ethereum is defined
    pinataJWT,       \* IPFS_CONFIG.pinataJWT is set
    hasProvider,     \* the read-only Contract object exposes .provider
    pc,              \* where the running action's continuation waits
    runs,            \* actions started so far
    net,             \* the running action's network record
    loading,         \* the view's loading flag
    message,         \* the view's message state
    success,         \* the view's success flag
    ri,              \* retryWithBackoff: loop index i, per nesting level
    delays,          \* retryWithBackoff: waits performed, per nesting level
    subjectAddress,  \* IssueDocument: recipient field
    credentialName,  \* IssueDocument: document name field
    selectedFile,    \* IssueDocument: chosen file ("" when none)
    addressError,    \* IssueDocument: live validation message
    trimmedAddress,  \* handleIssue: const trimmedAddress
    ipfsHash,        \* handleIssue: const ipfsHash
    vi,              \* handleIssue: verification loop index i
    credentials,     \* listing views: the records displayed
    loadingCredentials, \* IssuerDashboard: the list's loading flag
    error,           \* CredentialManagement: the error shown ("" when none)
    credentialIds,   \* a load's let credentialIds
    addressVariants, \* a load's const addressVariants
    vx,              \* a load's position in addressVariants
    results,         \* a load's per-record reads: what each promise holds
    localStorage,    \* the browser's localStorage: key -> item
    editingCredential, \* MyDocuments: id being edited (0 when none)
    editForm,        \* MyDocuments: the edit form
    searchParams,    \* ReceiveDocument: the share URL's parameters
    credentialId,    \* ReceiveDocument: state credentialId (0 for null)
    recipientAddress, \* ReceiveDocument: state recipientAddress
    issuerAddress,   \* ReceiveDocument: state issuerAddress
    credential,      \* ReceiveDocument: state credential
    processing,      \* ReceiveDocument: state processing
    closureIssuer,   \* loadCredential: the issuerAddress its closure holds
    fnParams,        \* a retryWithBackoff call: maxRetries and initialDelay
    fnResult,        \* a retryWithBackoff call: how it ended
    fnLog,           \* a retryWithBackoff call: how each fn() settled, in order
    fnThrown,        \* a retryWithBackoff call: the error it threw
    uploadFile,      \* an uploadToIPFS call: its file
    uploads,         \* the uploadToIPFS calls that have returned
    requests,        \* connectWallet: the window.ethereum.request methods, in order
    accounts,        \* connectWallet: const accounts
    connectResult,   \* connectWallet: what the call returned or threw
    selectedCredential, \* ShareDocument: state selectedCredential
    shareUrl,        \* ShareDocument: state shareUrl (its query parameters)
    loads,           \* MyDocuments: the loadCredentials calls in flight, oldest first
    timers,          \* MyDocuments: the account each pending issued-event timer closes over
    shownFor         \* MyDocuments: the account of the call that last wrote credentials

\* the loadCredentials calls of MyDocuments that overlap, and their triggers
raceOnly == <<loads, timers, shownFor>>
\* what no action of a view with one call at a time touches
fixedEnv == <<view, hasWallet, pinataJWT, hasProvider, raceOnly>>
retryVars == <<ri, delays>>
issueForm == <<subjectAddress, credentialName, selectedFile, addressError>>
issueOnly == <<subjectAddress, credentialName, selectedFile, addressError,
               trimmedAddress, ipfsHash, vi>>
listOnly == <<credentials, loadingCredentials, error, credentialIds,
              addressVariants, vx, results>>
loadLocals == <<credentialIds, addressVariants, vx, results>>

\* what no action of IssueDocument touches
docVars == <<localStorage, editingCredential, editForm>>
recvVars == <<searchParams, credentialId, recipientAddress, issuerAddress,
              credential, processing, closureIssuer>>
retryLog == <<fnResult, fnLog, fnThrown>>
walletVars == <<requests, accounts, connectResult>>
\* what only the selection and the Generate button of ShareDocument touch
shareOnly == <<selectedCredential, shareUrl>>
aloneVars == <<fnParams, retryLog, uploadFile, uploads, walletVars, shareOnly>>
envVars == <<fixedEnv, account, listOnly, docVars, recvVars, aloneVars>>
\* what no action of a listing view touches
listEnv2 == <<fixedEnv, issueOnly, retryVars, success, recvVars, aloneVars>>
listEnv == <<listEnv2, docVars>>

vars == <<view, account, hasWallet, pinataJWT, hasProvider, pc, runs, net,
          loading, message, success, ri, delays, subjectAddress,
          credentialName, selectedFile, addressError, trimmedAddress, ipfsHash,
          vi, credentials, loadingCredentials, error, credentialIds,
          addressVariants, vx, results, localStorage, editingCredential,
          editForm, searchParams, credentialId, recipientAddress,
          issuerAddress, credential, processing, closureIssuer, fnParams,
          fnResult, fnLog, fnThrown, uploadFile, uploads, requests, accounts,
          connectResult,
          selectedCredential, shareUrl, loads, timers, shownFor>>

Views == {"issue", "mydocs", "issuer", "share", "legacy", "receive",
          "retry", "upload", "connect"}

\* accounts a wallet or a parent component can hand down
AccountInputs ==
    {NoAccount}
        \cup {Str(1, f, TRUE, FALSE) : f \in {"lower", "check", "nonhex"}}
        \cup {Str(1, "lower", FALSE, FALSE)}

\* what a user can type into an address field
TypedAddresses ==
    {EmptyString, BlankString,
     Str(1, "lower", TRUE, FALSE), Str(1, "check", TRUE, TRUE),
     Str(1, "badcheck", TRUE, FALSE), Str(1, "short", TRUE, FALSE),
     Str(1, "nonhex", TRUE, FALSE), Str(1, "upper", FALSE, FALSE)}

\* the accounts tried on each view
AccountsOf(v) ==
    IF v \in {"issue", "receive"}
    THEN {NoAccount, Str(1, "lower", TRUE, FALSE), Str(1, "nonhex", TRUE, FALSE)}
    ELSE IF v \in {"retry", "upload", "connect"} THEN {NoAccount}
    ELSE AccountInputs

\* the parameters of a share URL; a missing one reads as null
Params(c, r, i) == [credentialId |-> c, recipient |-> r, issuer |-> i]
SearchParamsInputs ==
    {Params(0, Str(1, "lower", TRUE, FALSE), Str(2, "check", TRUE, FALSE)),
     Params(1, NoAccount, Str(2, "check", TRUE, FALSE)),
     Params(1, Str(1, "lower", TRUE, FALSE), NoAccount),
     Params(1, Str(1, "lower", TRUE, FALSE), Str(2, "check", TRUE, FALSE)),
     Params(1, Str(1, "check", TRUE, FALSE), Str(1, "lower", TRUE, FALSE)),
     Params(1, Str(2, "lower", TRUE, FALSE), Str(2, "check", TRUE, FALSE)),
     Params(1, Str(1, "short", TRUE, FALSE), Str(2, "check", TRUE, FALSE)),
     Params(2, Str(1, "lower", TRUE, FALSE), Str(2, "nonhex", TRUE, FALSE))}

\* ReceiveDocument: useState(null) for credential
NoCredential ==
    [credentialId |-> 0, issuer |-> 0, subject |-> 0, isRevoked |-> FALSE,
     fields |-> EmptyForm]

\* the address the chain reports for party w (0: nobody)
ChainAddress(w) == IF w = 0 THEN ZeroAddress ELSE Str(w, "check", TRUE, FALSE)

\* shareUrl = ''
NoUrl == Params(0, NoAccount, NoAccount)

RetryParams(m, d) == [maxRetries |-> m, initialDelay |-> d]

\* how a connectWallet call ended: the account returned (NoAccount for
\* undefined) or the text and cause of the Error thrown
Connect(st, a, t, e) == [st |-> st, account |-> a, text |-> t, cause |-> e]
NotConnected == Connect("none", NoAccount, "", E_OTHER)
\* the arguments tried on a stand-alone retryWithBackoff call
RetryParamsInputs ==
    {RetryParams(m, d) : m \in 0 .. MaxRetriesBound,
                         d \in {DefaultInitialDelay, IssueInitialDelay}}

\* what localStorage holds when the view mounts
StoragesOf(v) ==
    IF v = "mydocs"
    THEN {[k \in StorageKeys |-> IF k = getMetadataKey(1) THEN i ELSE NullItem] :
            i \in {NullItem, JunkItem, Item(JSONstringify(Fields("Will", "", "", "")))}}
    ELSE {[k \in StorageKeys |-> NullItem]}

\* the state of a freshly mounted view, its kind and account apart
InitState ==
    /\ hasWallet \in BOOLEAN
    /\ pinataJWT \in (IF view \in {"issue", "upload"} THEN BOOLEAN ELSE {TRUE})
    /\ hasProvider \in (IF view = "issuer" THEN BOOLEAN ELSE {FALSE})
    /\ pc = "idle"
    /\ runs = 0
    /\ net = NetIdle
    /\ loading = (view \in {"mydocs", "legacy", "receive"})
    /\ message = NoMessage
    /\ success = FALSE
    /\ credentials = <<>>
    /\ loadingCredentials = (view = "issuer")
    /\ error = ""
    /\ credentialIds = <<>>
    /\ addressVariants = <<>>
    /\ vx = 0
    /\ results = NoResults
    /\ localStorage \in StoragesOf(view)
    /\ editingCredential = 0
    /\ editForm = EmptyForm
    /\ searchParams \in (IF view = "receive" THEN SearchParamsInputs
                         ELSE {Params(0, NoAccount, NoAccount)})
    /\ credentialId = 0
    /\ recipientAddress = NoAccount
    /\ issuerAddress = NoAccount
    /\ credential = NoCredential
    /\ processing = FALSE
    /\ closureIssuer = NoAccount
    /\ fnParams \in (IF view = "retry" THEN RetryParamsInputs
                     ELSE {RetryParams(DefaultMaxRetries, DefaultInitialDelay)})
    /\ fnResult = "none"
    /\ fnLog = <<>>
    /\ fnThrown = E_OTHER
    /\ uploadFile = ""
    /\ uploads = <<>>
    /\ requests = <<>>
    /\ accounts = <<>>
    /\ connectResult = NotConnected
    /\ selectedCredential = NoCredential
    /\ shareUrl = NoUrl
    /\ loads = <<>>
    /\ timers = <<>>
    /\ shownFor = NoAccount
    /\ subjectAddress = EmptyString
    /\ credentialName = ""
    /\ selectedFile = ""
    /\ addressError = FALSE
    /\ trimmedAddress = EmptyString
    /\ ipfsHash = ""
    /\ ri = <<0, 0>>
    /\ delays = <<<<>>, <<>>>>
    /\ vi = 0

Init ==
    /\ view \in Views
    /\ account \in AccountsOf(view)
    /\ InitState

\* ------------------------------------------------------------ IssueDocument

IssueIdle == view = "issue" /\ pc \in {"idle", "done"}

(* The locals of a handler that has returned are gone: the next user     *)
(* event finds the view's state and nothing of the finished call.        *)
IssueLocalsGone ==
    /\ pc' = "idle"
    /\ net' = NetIdle
    /\ trimmedAddress' = EmptyString
    /\ ipfsHash' = ""
    /\ ri' = <<0, 0>>
    /\ delays' = <<<<>>, <<>>>>
    /\ vi' = 0

\* handleAddressChange
HandleAddressChange(value) ==
    /\ IssueIdle
    /\ subjectAddress' = value
    /\ addressError' = (~falsy(trim(value)) /\ ~isAddress(trim(value)))
    /\ IssueLocalsGone
    /\ UNCHANGED <<envVars, runs, loading, message, success,
                   credentialName, selectedFile>>

\* handleFileSelect
HandleFileSelect(file) ==
    /\ IssueIdle
    /\ selectedFile' = file
    /\ credentialName' = IF credentialName = "" THEN "Degree" ELSE credentialName
    /\ IssueLocalsGone
    /\ UNCHANGED <<envVars, runs, loading, message, success,
                   subjectAddress, addressError>>

\* the catch block's mapping of the error to the text shown
IssueErrorText(e) ==
    IF includes(e, "RPC endpoint") \/ includes(e, "too many errors")
    THEN "Network connection issue"
    ELSE IF includes(e, "network") \/ e.code = -32002 THEN "Network error"
    ELSE IF includes(e, "user rejected") \/ includes(e, "User denied")
    THEN "Transaction was cancelled"
    ELSE IF includes(e, "insufficient funds") THEN "Insufficient funds"
    ELSE "Unknown error occurred"

\* catch (error) { setMessage(error) } finally { setLoading(false) }
IssueCatch(e) ==
    /\ message' = Msg("error", IssueErrorText(e))
    /\ loading' = FALSE
    /\ pc' = "done"

\* a success tail that leaves the form as it was
IssueSucceed_keepsForm ==
    /\ message' = Msg("success", "Credential issued successfully")
    /\ success' = TRUE
    /\ UNCHANGED <<subjectAddress, credentialName, selectedFile>>
    /\ loading' = FALSE
    /\ pc' = "done"

\* the success tail of handleIssue, lines 229-245, and the finally block
IssueSucceed ==
    /\ message' = Msg("success", "Credential issued successfully")
    /\ success' = TRUE
    /\ subjectAddress' = EmptyString
    /\ credentialName' = ""
    /\ selectedFile' = ""
    /\ loading' = FALSE
    /\ pc' = "done"

\* handleIssue up to its first await
HandleIssue ==
    /\ IssueIdle
    /\ ~loading
    /\ runs < MaxRuns
    /\ runs' = runs + 1
    /\ trimmedAddress' = trim(subjectAddress)
    /\ ri' = <<0, 0>>
    /\ delays' = <<<<>>, <<>>>>
    /\ vi' = 0
    /\ ipfsHash' = ""
    /\ UNCHANGED <<envVars, issueForm>>
    /\ IF falsy(trim(subjectAddress))
       THEN /\ message' = Msg("error", "Recipient address is required")
            /\ pc' = "done"
            /\ net' = NetIdle
            /\ UNCHANGED <<loading, success>>
       ELSE IF ~(getAddressOk(trim(subjectAddress))
                 /\ isAddress(getAddress(trim(subjectAddress))))
       THEN /\ message' = Msg("error", "Invalid Ethereum address format")
            /\ pc' = "done"
            /\ net' = NetIdle
            /\ UNCHANGED <<loading, success>>
       ELSE IF selectedFile = ""
       THEN /\ message' = Msg("error", "Please select a file to upload")
            /\ pc' = "done"
            /\ net' = NetIdle
            /\ UNCHANGED <<loading, success>>
       ELSE /\ success' = FALSE
            /\ IF hasWallet
               THEN \* checkRpcConnection: provider.getBlockNumber()
                    /\ loading' = TRUE
                    /\ message' = Msg("info", "Checking connection to blockchain")
                    /\ net' = Send(NetIdle, "getBlockNumber", 0, FALSE)
                    /\ pc' = "rpc"
               ELSE \* getProvider throws, checkRpcConnection reports it
                    /\ net' = NetIdle
                    /\ IssueCatch(E_RPC)

\* reply to provider.getBlockNumber()
IssueRpcReply(ok) ==
    /\ view = "issue" /\ pc = "rpc"
    /\ UNCHANGED <<envVars, runs, issueOnly, retryVars, success>>
    /\ IF ok /\ account # NoAccount /\ getAddressOk(account)
       THEN /\ message' = Msg("info", "Uploading file to secure storage")
            /\ net' = Send(Recv(net, "getBlockNumber", 0, TRUE), "upload", 0, FALSE)
            /\ pc' = "upload"
            /\ UNCHANGED loading
       ELSE /\ net' = Recv(net, "getBlockNumber", 0, ok)
            \* the Error thrown on !rpcCheck.connected names the 'RPC endpoint';
            \* the one ethers.getAddress(account) throws does not
            /\ IssueCatch(IF ok THEN E_OTHER ELSE E_RPC)

\* reply to the upload request of uploadToIPFS
IssueUploadReply(resp) ==
    /\ view = "issue" /\ pc = "upload"
    /\ resp \in UploadResponses(pinataJWT)
    /\ UNCHANGED <<envVars, runs, issueForm, trimmedAddress, vi, success>>
    /\ LET r == uploadToIPFS(pinataJWT, resp)
       IN IF r.ok
          THEN \* getCredentialManagerContract: retryWithBackoff(getSigner)
               /\ ipfsHash' = r.value
               /\ message' = Msg("info", "Issuing credential on blockchain")
               /\ net' = Send(Recv(net, "upload", 0, TRUE), "getSigner", 0, TRUE)
               /\ ri' = <<0, 0>>
               /\ delays' = <<<<>>, <<>>>>
               /\ pc' = "signer"
               /\ UNCHANGED loading
          ELSE /\ net' = Recv(net, "upload", 0, FALSE)
               /\ IssueCatch(r.err)
               /\ UNCHANGED <<ipfsHash, retryVars>>

(* getCredentialManagerContract wraps getSigner in retryWithBackoff, and   *)
(* getSigner wraps provider.getSigner() in retryWithBackoff: level 1 is    *)
(* the outer loop, level 2 the inner one.  What the reply to               *)
(* provider.getSigner() leads to: "ok", "inner" (the inner loop waits and  *)
(* calls again), "outer" (the inner loop threw, the outer waits and starts *)
(* a new inner loop) or "throw".                                           *)
SignerNext(e) ==
    IF RetryDecision(ri[2], DefaultMaxRetries, e) = "retry" THEN "inner"
    ELSE IF RetryDecision(ri[1], DefaultMaxRetries, e) = "retry" THEN "outer"
    ELSE "throw"

\* retryWithBackoff has returned or thrown: its loop variables are gone
RetryGone ==
    /\ ri' = <<0, 0>>
    /\ delays' = <<<<>>, <<>>>>

SignerRetry(e) ==
    IF SignerNext(e) = "inner"
    THEN /\ ri' = <<ri[1], ri[2] + 1>>
         /\ delays' = <<delays[1],
                        Append(delays[2], RetryDelay(DefaultInitialDelay, ri[2]))>>
    ELSE /\ ri' = <<ri[1] + 1, 0>>
         /\ delays' = <<Append(delays[1], RetryDelay(DefaultInitialDelay, ri[1])),
                        <<>>>>

\* reply to provider.getSigner() inside getCredentialManagerContract
IssueSignerReply(out) ==
    /\ view = "issue" /\ pc = "signer"
    /\ out \in CallOutcomes
    /\ UNCHANGED <<envVars, runs, issueOnly, success>>
    /\ IF out.kind = "ok"
       THEN \* retryWithBackoff(() => contract.issueCredential(...), 3, 2000)
            /\ net' = Send(Recv(net, "getSigner", 0, TRUE), "issueCredential", 0, TRUE)
            /\ ri' = <<0, 0>>
            /\ delays' = <<<<>>, <<>>>>
            /\ pc' = "tx"
            /\ UNCHANGED <<loading, message>>
       ELSE IF SignerNext(out.err) = "throw"
       THEN /\ net' = Recv(net, "getSigner", 0, FALSE)
            /\ IssueCatch(out.err)
            /\ RetryGone
       ELSE /\ net' = Send(Recv(net, "getSigner", 0, FALSE), "getSigner", 0, TRUE)
            /\ SignerRetry(out.err)
            /\ UNCHANGED <<pc, loading, message>>

\* a round whose wait counts the failed attempts from one
RetryAgain_countsFromOne(initialDelay) ==
    /\ ri' = <<ri[1] + 1, 0>>
    /\ delays' = <<Append(delays[1], RetryDelay(initialDelay, ri[1] + 1)), <<>>>>

\* one more round of a single-level retryWithBackoff(fn, maxRetries, initialDelay)
RetryAgain(initialDelay) ==
    /\ ri' = <<ri[1] + 1, 0>>
    /\ delays' = <<Append(delays[1], RetryDelay(initialDelay, ri[1])), <<>>>>

\* reply to contract.issueCredential(...)
IssueTxReply(out) ==
    /\ view = "issue" /\ pc = "tx"
    /\ out \in CallOutcomes
    /\ UNCHANGED <<envVars, runs, issueOnly, success>>
    /\ IF out.kind = "ok"
       THEN \* retryWithBackoff(() => tx.wait(), 3, 2000)
            /\ message' = Msg("info", "Waiting for transaction confirmation")
            /\ net' = Send(Recv(net, "issueCredential", 0, TRUE), "wait", 0, TRUE)
            /\ ri' = <<0, 0>>
            /\ delays' = <<<<>>, <<>>>>
            /\ pc' = "wait"
            /\ UNCHANGED loading
       ELSE IF RetryDecision(ri[1], IssueMaxRetries, out.err) = "throw"
       THEN /\ net' = Recv(net, "issueCredential", 0, FALSE)
            /\ IssueCatch(out.err)
            /\ RetryGone
       ELSE /\ net' = Send(Recv(net, "issueCredential", 0, FALSE), "issueCredential", 0, TRUE)
            /\ RetryAgain(IssueInitialDelay)
            /\ UNCHANGED <<pc, loading, message>>

\* reply to tx.wait(): a receipt with its status, or an error
IssueWaitReply(out) ==
    /\ view = "issue" /\ pc = "wait"
    /\ out \in WaitOutcomes
    /\ UNCHANGED <<envVars, runs, issueForm, trimmedAddress, ipfsHash>>
    /\ IF out.kind = "status1"
       THEN \* verification loop, i = 0: verifyContract.getCredential(credentialId)
            /\ net' = Send(Recv(net, "wait", 0, TRUE), "getCredential", 0, FALSE)
            /\ vi' = 0
            /\ pc' = "verify"
            /\ RetryGone
            /\ UNCHANGED <<loading, message, success>>
       ELSE IF out.kind = "status0"
       THEN /\ net' = Recv(net, "wait", 0, TRUE)
            /\ IssueCatch(E_OTHER)
            /\ RetryGone
            /\ UNCHANGED <<vi, success>>
       ELSE IF RetryDecision(ri[1], IssueMaxRetries, out.err) = "throw"
       THEN /\ net' = Recv(net, "wait", 0, FALSE)
            /\ IssueCatch(out.err)
            /\ RetryGone
            /\ UNCHANGED <<vi, success>>
       ELSE /\ net' = Send(Recv(net, "wait", 0, FALSE), "wait", 0, TRUE)
            /\ RetryAgain(IssueInitialDelay)
            /\ UNCHANGED <<pc, loading, message, vi, success>>

\* reply to verifyContract.getCredential(credentialId), attempt vi
IssueVerifyReply(ok) ==
    /\ view = "issue" /\ pc = "verify"
    /\ UNCHANGED <<envVars, runs, trimmedAddress, ipfsHash, retryVars, addressError>>
    /\ IF ok
       THEN /\ net' = Send(Recv(net, "getCredential", 0, TRUE),
                           "getCredentialsByIssuer", 0, FALSE)
            /\ pc' = "verifyIssuer"
            /\ UNCHANGED <<loading, message, success, vi, subjectAddress,
                           credentialName, selectedFile>>
       ELSE IF vi < VerifyAttempts - 1
       THEN /\ net' = Send(Recv(net, "getCredential", 0, FALSE), "getCredential", 0, FALSE)
            /\ vi' = vi + 1
            /\ UNCHANGED <<pc, loading, message, success, subjectAddress,
                           credentialName, selectedFile>>
       ELSE /\ net' = Recv(net, "getCredential", 0, FALSE)
            /\ IssueSucceed
            /\ UNCHANGED vi

\* reply to verifyContract.getCredentialsByIssuer(...): logged either way
IssueVerifyIssuerReply(ok) ==
    /\ view = "issue" /\ pc = "verifyIssuer"
    /\ net' = Send(Recv(net, "getCredentialsByIssuer", 0, ok),
                   "getCredentialsBySubject", 0, FALSE)
    /\ pc' = "verifySubject"
    /\ UNCHANGED <<envVars, runs, issueOnly, retryVars, loading, message, success>>

\* reply to verifyContract.getCredentialsBySubject(...): logged either way
IssueVerifySubjectReply(ok) ==
    /\ view = "issue" /\ pc = "verifySubject"
    /\ net' = Recv(net, "getCredentialsBySubject", 0, ok)
    /\ IssueSucceed
    /\ UNCHANGED <<envVars, runs, trimmedAddress, ipfsHash, retryVars, vi, addressError>>

IssueNext ==
    \/ \E value \in TypedAddresses : HandleAddressChange(value)
    \/ \E file \in Files : HandleFileSelect(file)
    \/ HandleIssue
    \/ \E ok \in BOOLEAN : IssueRpcReply(ok)
    \/ \E resp \in PinataResponses \cup PublicResponses : IssueUploadReply(resp)
    \/ \E out \in CallOutcomes : IssueSignerReply(out)
    \/ \E out \in CallOutcomes : IssueTxReply(out)
    \/ \E out \in WaitOutcomes : IssueWaitReply(out)
    \/ \E ok \in BOOLEAN : IssueVerifyReply(ok)
    \/ \E ok \in BOOLEAN : IssueVerifyIssuerReply(ok)
    \/ \E ok \in BOOLEAN : IssueVerifySubjectReply(ok)

\* ------------------------------------------------------------ listing views

ListIdle(v) == view = v /\ pc \in {"idle", "done"}

\* which flag is the list's loading flag
SetListLoading(v, b) ==
    IF v = "issuer"
    THEN loadingCredentials' = b /\ UNCHANGED loading
    ELSE loading' = b /\ UNCHANGED loadingCredentials

\* an early return that forgets setCredentials([])
EndEmpty_keepsList(v) ==
    /\ UNCHANGED credentials
    /\ SetListLoading(v, FALSE)
    /\ pc' = "done"

\* setCredentials([]); setLoading(false); return
EndEmpty(v) ==
    /\ credentials' = <<>>
    /\ SetListLoading(v, FALSE)
    /\ pc' = "done"

\* a call of the load starts with fresh locals
FreshLocals ==
    /\ credentialIds' = <<>>
    /\ addressVariants' = <<>>
    /\ vx' = 0
    /\ results' = NoResults

\* the reads issued next to a count query that nobody awaits
SendReads_eager(n, ids) ==
    LET RECURSIVE S(_, _)
        S(i, m) == IF i > Len(ids) THEN m
                   ELSE S(i + 1, Send(m, "getCredential", ids[i], FALSE))
    IN S(1, Send(n, "getTotalCredentials", 0, FALSE))

\* credentialIds.map(async id => contract.getCredential(id)): every read is
\* issued before the first await of Promise.all
SendReads(n, ids) ==
    LET RECURSIVE S(_, _)
        S(i, m) == IF i > Len(ids) THEN m
                   ELSE S(i + 1, Send(m, "getCredential", ids[i], FALSE))
    IN S(1, n)

PendingFor(ids) ==
    [id \in CredIds |-> IF \E i \in 1 .. Len(ids) : ids[i] = id
                         THEN Rec("pending", 0, 0, FALSE) ELSE NoRec]

AllSettled(res) == \A id \in CredIds : res[id].st # "pending"

\* the address variants of MyDocuments.loadCredentials
MyDocsVariants(a) ==
    Dedup(<<getAddress(a), toLowerCase(a), a, getAddress(toLowerCase(a))>>)

\* the address variants of IssuerDashboard.loadIssuedCredentials
IssuerVariants(a) ==
    Dedup(<<a, getAddress(a), toLowerCase(a), getAddress(toLowerCase(a))>>)

\* the id-list read of a view
IdsMethod(v) ==
    IF v \in {"issuer", "share"} THEN "getCredentialsByIssuer"
    ELSE "getCredentialsBySubject"

(* loadCredentials / loadIssuedCredentials is called by the mount effect   *)
(* (pc = "idle"), by Refresh, or by the effect of the account prop         *)
(* changing to a; loads of one view do not overlap here.                   *)
LoadTrigger(v, a, refresh) ==
    /\ ListIdle(v)
    /\ runs < MaxRuns
    /\ a \in AccountInputs
    /\ \/ pc = "idle" /\ a = account
       \/ pc = "done" /\ a # account
       \/ pc = "done" /\ a = account /\ refresh
    /\ account' = a
    /\ runs' = runs + 1

\* MyDocuments.loadCredentials up to its first await
MyDocsLoad(a) ==
    /\ LoadTrigger("mydocs", a, ~loading)
    /\ FreshLocals
    /\ UNCHANGED <<listEnv, message, error, loadingCredentials>>
    /\ IF falsy(a) \/ ~startsWith0x(a)
       THEN /\ loading' = FALSE
            /\ credentials' = <<>>
            /\ pc' = "done"
            /\ net' = NetIdle
       ELSE IF ~hasWallet \/ ~getAddressOk(a)
       THEN \* getCredentialManagerContractReadOnly or ethers.getAddress throws
            /\ loading' = FALSE
            /\ credentials' = <<>>
            /\ pc' = "done"
            /\ net' = NetIdle
       ELSE /\ loading' = TRUE
            /\ net' = Send(NetIdle, "getTotalCredentials", 0, FALSE)
            /\ pc' = "total"
            /\ UNCHANGED credentials

\* IssuerDashboard's effect does not call the load for such an account
IssuerEffectSkips(a) == falsy(a) \/ ~startsWith0x(a)

\* the account prop changes and the effect of IssuerDashboard skips the load
IssuerAccountIgnored(a) ==
    /\ ListIdle("issuer")
    /\ a \in AccountInputs
    /\ a # account
    /\ IssuerEffectSkips(a)
    /\ account' = a
    /\ UNCHANGED <<listEnv, listOnly, pc, runs, net, loading, message>>

\* IssuerDashboard.loadIssuedCredentials up to its first await
LoadIssuedCredentials(a) ==
    /\ FreshLocals
    /\ UNCHANGED <<listEnv, message, error, loading>>
    /\ IF falsy(a) \/ ~startsWith0x(a)
       THEN /\ loadingCredentials' = FALSE
            /\ credentials' = <<>>
            /\ pc' = "done"
            /\ net' = NetIdle
       ELSE IF ~hasWallet
       THEN \* getCredentialManagerContractReadOnly throws
            /\ loadingCredentials' = FALSE
            /\ credentials' = <<>>
            /\ pc' = "done"
            /\ net' = NetIdle
       ELSE IF hasProvider
       THEN \* provider.getCode(contractAddress)
            /\ loadingCredentials' = TRUE
            /\ net' = Send(NetIdle, "getCode", 0, FALSE)
            /\ pc' = "code"
            /\ UNCHANGED credentials
       ELSE IF ~getAddressOk(a)
       THEN \* provider is undefined (caught), then ethers.getAddress throws
            /\ loadingCredentials' = FALSE
            /\ credentials' = <<>>
            /\ pc' = "done"
            /\ net' = NetIdle
       ELSE /\ loadingCredentials' = TRUE
            /\ net' = Send(NetIdle, "getTotalCredentials", 0, FALSE)
            /\ pc' = "total"
            /\ UNCHANGED credentials

\* the mount effect, Refresh, or the effect of the account changing to a
IssuerLoad(a) ==
    /\ LoadTrigger("issuer", a, ~loadingCredentials)
    /\ (a # account \/ pc = "idle") => ~IssuerEffectSkips(a)
    /\ LoadIssuedCredentials(a)

\* reply to provider.getCode(contractAddress): "code", "empty" ('0x') or "fail"
IssuerCodeReply(out) ==
    /\ view = "issuer" /\ pc = "code"
    /\ out \in {"code", "empty", "fail"}
    /\ UNCHANGED <<listEnv, account, runs, message, error, loading, loadLocals>>
    /\ IF out = "empty"
       THEN /\ net' = Recv(net, "getCode", 0, TRUE)
            /\ EndEmpty("issuer")
       ELSE IF ~getAddressOk(account)
       THEN \* ethers.getAddress(account) throws: the outer catch
            /\ net' = Recv(net, "getCode", 0, out = "code")
            /\ EndEmpty("issuer")
       ELSE /\ net' = Send(Recv(net, "getCode", 0, out = "code"),
                           "getTotalCredentials", 0, FALSE)
            /\ pc' = "total"
            /\ UNCHANGED <<credentials, loadingCredentials>>

\* reply to contract.getTotalCredentials(): "zero", "some" or "fail"
TotalReply(v, out) ==
    /\ view = v /\ pc = "total"
    /\ out \in {"zero", "some", "fail"}
    /\ UNCHANGED <<listEnv, account, runs, message, error, credentialIds, results>>
    /\ IF out = "zero"
       THEN /\ net' = Recv(net, "getTotalCredentials", 0, TRUE)
            /\ EndEmpty(v)
            /\ UNCHANGED <<addressVariants, vx>>
       ELSE /\ addressVariants' = IF v = "issuer" THEN IssuerVariants(account)
                                   ELSE MyDocsVariants(account)
            /\ vx' = 1
            /\ net' = Send(Recv(net, "getTotalCredentials", 0, out = "some"),
                           IdsMethod(v), 1, FALSE)
            /\ pc' = "ids"
            /\ UNCHANGED <<credentials, loading, loadingCredentials>>


\* reply to the id-list read for addressVariants[vx]
VariantReply(v, out) ==
    /\ view = v /\ pc = "ids"
    /\ out \in IdsReplies
    /\ UNCHANGED <<listEnv, account, runs, message, error, addressVariants>>
    /\ IF out.ok /\ out.ids # <<>>
       THEN \* found: break, then read every record
            /\ credentialIds' = out.ids
            /\ results' = PendingFor(out.ids)
            /\ net' = SendReads(Recv(net, IdsMethod(v), vx, TRUE), out.ids)
            /\ pc' = "creds"
            /\ UNCHANGED <<vx, credentials, loading, loadingCredentials>>
       ELSE IF vx < Len(addressVariants)
       THEN \* empty or failed: the next variant
            /\ vx' = vx + 1
            /\ net' = Send(RecvIds(net, IdsMethod(v), vx, out), IdsMethod(v), vx + 1, FALSE)
            /\ UNCHANGED <<pc, credentialIds, results, credentials, loading,
                           loadingCredentials>>
       ELSE \* no variant found anything
            /\ net' = RecvIds(net, IdsMethod(v), vx, out)
            /\ EndEmpty(v)
            /\ UNCHANGED <<vx, credentialIds, results>>


\* reply to one contract.getCredential(id); the last one settles Promise.all
\* and the load stores what it read
ReadReply(v, id, rec) ==
    /\ view = v /\ pc = "creds"
    /\ id \in CredIds /\ rec \in CredReplies
    /\ results[id].st = "pending"
    /\ results' = [results EXCEPT ![id] =
                       IF rec.st # "ok" THEN NullRec
                       ELSE IF v = "mydocs"
                       THEN [rec EXCEPT !.fields =
                                DisplayFields(getMetadata(localStorage, id))]
                       ELSE rec]
    /\ net' = Recv(net, "getCredential", id, rec.st = "ok")
    /\ UNCHANGED <<listEnv, account, runs, message, error, credentialIds,
                   addressVariants, vx>>
    /\ IF AllSettled(results')
       THEN /\ credentials' = Collect(credentialIds, results', v # "share")
            /\ SetListLoading(v, FALSE)
            /\ pc' = "done"
       ELSE UNCHANGED <<credentials, loading, loadingCredentials, pc>>


\* ShareDocument.loadCredentials up to its first await
ShareLoad(a) ==
    /\ LoadTrigger("share", a, FALSE)
    /\ FreshLocals
    /\ UNCHANGED <<listEnv, message, error, loadingCredentials>>
    /\ IF falsy(a) \/ ~startsWith0x(a)
       THEN /\ credentials' = <<>>
            /\ pc' = "done"
            /\ net' = NetIdle
            /\ UNCHANGED loading
       ELSE IF ~hasWallet \/ ~getAddressOk(a)
       THEN /\ loading' = FALSE
            /\ credentials' = <<>>
            /\ pc' = "done"
            /\ net' = NetIdle
       ELSE /\ loading' = TRUE
            /\ net' = Send(NetIdle, "getCredentialsByIssuer", 0, FALSE)
            /\ pc' = "ids"
            /\ UNCHANGED credentials

\* reply to contract.getCredentialsByIssuer(normalizedAccount)
ShareIdsReply(out) ==
    /\ view = "share" /\ pc = "ids"
    /\ out \in IdsReplies
    /\ UNCHANGED <<listEnv, account, runs, message, error, addressVariants, vx,
                   loadingCredentials>>
    /\ IF ~out.ok \/ out.ids = <<>>
       THEN \* the catch block, or Promise.all of no promises
            /\ net' = RecvIds(net, "getCredentialsByIssuer", 0, out)
            /\ credentials' = <<>>
            /\ loading' = FALSE
            /\ pc' = "done"
            /\ UNCHANGED <<credentialIds, results>>
       ELSE /\ credentialIds' = out.ids
            /\ results' = PendingFor(out.ids)
            /\ net' = SendReads(Recv(net, "getCredentialsByIssuer", 0, TRUE), out.ids)
            /\ pc' = "creds"
            /\ UNCHANGED <<credentials, loading>>

\* what no click or keystroke in ShareDocument's form touches
shareFormEnv == <<fixedEnv, account, issueOnly, retryVars, success, docVars,
                  listOnly, loading, pc, runs, net, searchParams, credentialId,
                  issuerAddress, credential, processing, closureIssuer,
                  fnParams, retryLog, uploadFile, uploads, walletVars>>

\* onClick of the i-th card of the list, rendered once loading is false
HandleSelectCredential(i) ==
    /\ view = "share" /\ ~loading
    /\ i \in 1 .. Len(credentials)
    /\ selectedCredential' = credentials[i]
    /\ shareUrl' = NoUrl
    /\ message' = NoMessage
    /\ UNCHANGED <<shareFormEnv, recipientAddress>>

\* an onChange that leaves the URL generated before on display
HandleRecipientChange_keepsUrl(value) ==
    /\ view = "share" /\ selectedCredential # NoCredential
    /\ value \in TypedAddresses
    /\ recipientAddress' = value
    /\ message' = NoMessage
    /\ UNCHANGED <<shareFormEnv, selectedCredential, shareUrl>>

\* onChange of the recipient input, rendered once a record is selected
HandleRecipientChange(value) ==
    /\ view = "share" /\ selectedCredential # NoCredential
    /\ value \in TypedAddresses
    /\ recipientAddress' = value
    /\ shareUrl' = NoUrl
    /\ message' = NoMessage
    /\ UNCHANGED <<shareFormEnv, selectedCredential>>

(* handleGenerateUrl; its button is rendered under selectedCredential &&   *)
(* recipientAddress, so the check of line 348 cannot fire.                 *)
HandleGenerateUrl ==
    /\ view = "share"
    /\ selectedCredential # NoCredential /\ ~falsy(recipientAddress)
    /\ UNCHANGED <<shareFormEnv, selectedCredential, recipientAddress>>
    /\ IF falsy(trim(recipientAddress))
       THEN /\ message' = Msg("error", "Please enter recipient address")
            /\ UNCHANGED shareUrl
       ELSE IF ~isAddress(trim(recipientAddress))
       THEN /\ message' = Msg("error", "Invalid Ethereum address")
            /\ UNCHANGED shareUrl
       ELSE IF ~getAddressOk(trim(recipientAddress))
       THEN /\ message' = Msg("error", "Error generating URL")
            /\ UNCHANGED shareUrl
       ELSE \* String(credentialId), the normalised recipient, String(issuer)
            /\ shareUrl' = Params(selectedCredential.credentialId,
                                  getAddress(trim(recipientAddress)),
                                  ChainAddress(selectedCredential.issuer))
            /\ message' = Msg("success", "Shareable URL generated successfully!")

\* CredentialManagement's effect: whether it calls the load
LegacyEffectLoads(a) == ~falsy(a) /\ startsWith0x(a) /\ length42(a)

\* CredentialManagement: the effect's else branch (mount or account change)
LegacyEffectClears(a) ==
    /\ ListIdle("legacy")
    /\ a \in AccountInputs
    /\ (pc = "idle" /\ runs = 0 /\ a = account) \/ (pc = "done" /\ a # account)
    /\ ~LegacyEffectLoads(a)
    /\ account' = a
    /\ credentials' = <<>>
    /\ loading' = FALSE
    /\ error' = ""
    /\ pc' = "done"
    /\ net' = NetIdle
    /\ FreshLocals
    /\ UNCHANGED <<listEnv, runs, message, loadingCredentials>>

\* CredentialManagement.loadCredentials up to its first await
LegacyLoad(a) ==
    /\ LoadTrigger("legacy", a, ~loading /\ error = "")
    /\ (a # account \/ pc = "idle") => LegacyEffectLoads(a)
    /\ FreshLocals
    /\ UNCHANGED <<listEnv, message, loadingCredentials, credentials>>
    /\ IF falsy(a) \/ ~startsWith0x(a)
       THEN /\ pc' = "done"
            /\ net' = NetIdle
            /\ UNCHANGED <<loading, error>>
       ELSE IF ~hasWallet
       THEN /\ error' = "Failed to load credentials"
            /\ loading' = FALSE
            /\ pc' = "done"
            /\ net' = NetIdle
       ELSE /\ loading' = TRUE
            /\ error' = ""
            /\ net' = Send(NetIdle, "getCredentialsBySubject", 0, FALSE)
            /\ pc' = "ids"

\* reply to contract.getCredentialsBySubject(account); an account ethers
\* cannot resolve makes the call fail
LegacyIdsReply(out) ==
    /\ view = "legacy" /\ pc = "ids"
    /\ out \in IdsReplies
    /\ getAddressOk(account) \/ ~out.ok
    /\ UNCHANGED <<listEnv, account, runs, message, addressVariants, vx,
                   loadingCredentials>>
    /\ IF ~out.ok
       THEN /\ net' = Recv(net, "getCredentialsBySubject", 0, FALSE)
            /\ error' = "Failed to load credentials"
            /\ loading' = FALSE
            /\ pc' = "done"
            /\ UNCHANGED <<credentialIds, results, credentials>>
       ELSE IF out.ids = <<>>
       THEN /\ net' = RecvEmpty(net, "getCredentialsBySubject", 0)
            /\ credentials' = <<>>
            /\ loading' = FALSE
            /\ pc' = "done"
            /\ UNCHANGED <<credentialIds, results, error>>
       ELSE /\ credentialIds' = out.ids
            /\ results' = PendingFor(out.ids)
            /\ net' = SendReads(Recv(net, "getCredentialsBySubject", 0, TRUE), out.ids)
            /\ pc' = "creds"
            /\ UNCHANGED <<credentials, loading, error>>

\* reply to one contract.getCredential(id) of CredentialManagement: the map
\* callback has no try, so the first failed read rejects Promise.all
LegacyReadReply(id, rec) ==
    /\ view = "legacy" /\ pc = "creds"
    /\ id \in CredIds /\ rec \in CredReplies
    /\ results[id].st = "pending"
    /\ results' = [results EXCEPT ![id] = IF rec.st = "ok" THEN rec ELSE NullRec]
    /\ net' = Recv(net, "getCredential", id, rec.st = "ok")
    /\ UNCHANGED <<listEnv, account, runs, message, credentialIds,
                   addressVariants, vx, loadingCredentials>>
    /\ IF rec.st # "ok"
       THEN /\ error' = "Failed to load credentials"
            /\ loading' = FALSE
            /\ pc' = "done"
            /\ UNCHANGED credentials
       ELSE IF AllSettled(results')
       THEN /\ credentials' = Collect(credentialIds, results', TRUE)
            /\ loading' = FALSE
            /\ pc' = "done"
            /\ UNCHANGED error
       ELSE UNCHANGED <<credentials, loading, error, pc>>

ListNext ==
    \/ \E a \in AccountInputs : MyDocsLoad(a)
    \/ \E out \in {"zero", "some", "fail"} : TotalReply("mydocs", out)
    \/ \E out \in IdsReplies : VariantReply("mydocs", out)
    \/ \E id \in CredIds, rec \in CredReplies : ReadReply("mydocs", id, rec)
    \/ \E a \in AccountInputs : IssuerAccountIgnored(a)
    \/ \E a \in AccountInputs : IssuerLoad(a)
    \/ \E out \in {"code", "empty", "fail"} : IssuerCodeReply(out)
    \/ \E out \in {"zero", "some", "fail"} : TotalReply("issuer", out)
    \/ \E out \in IdsReplies : VariantReply("issuer", out)
    \/ \E id \in CredIds, rec \in CredReplies : ReadReply("issuer", id, rec)
    \/ \E a \in AccountInputs : ShareLoad(a)
    \/ \E out \in IdsReplies : ShareIdsReply(out)
    \/ \E id \in CredIds, rec \in CredReplies : ReadReply("share", id, rec)
    \/ \E i \in 1 .. MaxIds : HandleSelectCredential(i)
    \/ \E value \in TypedAddresses : HandleRecipientChange(value)
    \/ HandleGenerateUrl
    \/ \E a \in AccountInputs : LegacyEffectClears(a)
    \/ \E a \in AccountInputs : LegacyLoad(a)
    \/ \E out \in IdsReplies : LegacyIdsReply(out)
    \/ \E id \in CredIds, rec \in CredReplies : LegacyReadReply(id, rec)

\* ------------------------------------------------- MyDocuments: metadata

\* the list is rendered, and a finished load has left nothing behind
DocsShown == view = "mydocs" /\ pc = "done" /\ ~loading

DocsUntouched ==
    /\ net' = NetIdle
    /\ FreshLocals
    /\ UNCHANGED <<listEnv2, account, pc, runs, loading, message, error,
                   loadingCredentials>>

\* the record with this id is on display
Displayed(id) == \E i \in 1 .. Len(credentials) : credentials[i].credentialId = id

\* the card of the i-th record is rendered
DocCardShown(i) == view = "mydocs" /\ ~loading /\ i \in 1 .. Len(credentials)
\* its Edit and View buttons are rendered unless the record is being edited;
\* neither has a disabled attribute
EditButton(i) == DocCardShown(i) /\ editingCredential # credentials[i].credentialId
ViewButton(i) == DocCardShown(i) /\ editingCredential # credentials[i].credentialId

\* the Edit button of the i-th record
HandleEdit(i) ==
    /\ DocsShown
    /\ EditButton(i)
    /\ editingCredential' = credentials[i].credentialId
    /\ editForm' = Fields(credentials[i].fields.name,
                          OrElse(credentials[i].fields.category, "other"),
                          credentials[i].fields.description,
                          credentials[i].fields.notes)
    /\ DocsUntouched
    /\ UNCHANGED <<credentials, localStorage>>

\* typing into the edit form of the record being edited
EditFormChange(m) ==
    /\ DocsShown
    /\ Displayed(editingCredential)
    /\ m \in FormInputs
    /\ editForm' = m
    /\ DocsUntouched
    /\ UNCHANGED <<credentials, localStorage, editingCredential>>

\* prev.map(cred => cred.credentialIdStr === id ? {...cred, ...editForm} : cred)
WithForm(creds, id, form) ==
    [i \in 1 .. Len(creds) |->
        IF creds[i].credentialId = id THEN [creds[i] EXCEPT !.fields = form]
        ELSE creds[i]]

\* the Save button of the record being edited
HandleSaveMetadata(full) ==
    /\ DocsShown
    /\ Displayed(editingCredential)
    /\ LET saved == saveMetadata(localStorage, editingCredential, editForm, full)
       IN IF saved.ok
          THEN /\ localStorage' = saved.ls
               /\ credentials' = WithForm(credentials, editingCredential, editForm)
               /\ editingCredential' = 0
               /\ editForm' = EmptyForm
          ELSE UNCHANGED <<localStorage, credentials, editingCredential, editForm>>
    /\ DocsUntouched

\* the Cancel button of the record being edited
HandleCancelEdit ==
    /\ DocsShown
    /\ Displayed(editingCredential)
    /\ editingCredential' = 0
    /\ editForm' = EmptyForm
    /\ DocsUntouched
    /\ UNCHANGED <<credentials, localStorage>>

DocsNext ==
    \/ \E i \in 1 .. MaxIds : HandleEdit(i)
    \/ \E m \in FormInputs : EditFormChange(m)
    \/ \E full \in BOOLEAN : HandleSaveMetadata(full)
    \/ HandleCancelEdit

\* ------------------------------------------------ IssuerDashboard: revoke

\* what no step of handleRevoke touches
revokeEnv == <<fixedEnv, issueOnly, success, docVars, recvVars, aloneVars,
               account, runs, credentials,
               loadingCredentials, error, loadLocals>>

\* the catch and finally blocks of handleRevoke
RevokeCatch ==
    /\ message' = Msg("error", "Failed to revoke credential")
    /\ loading' = FALSE
    /\ pc' = "done"

\* the card of the i-th issued record is rendered
IssuerCardShown(i) ==
    view = "issuer" /\ ~loadingCredentials /\ i \in 1 .. Len(credentials)
\* its View button is always there and has no disabled attribute
IssuerViewButton(i) == IssuerCardShown(i)
\* {!credential.isRevoked && <button ... disabled={loading}>}
RevokeButton(i) == IssuerCardShown(i) /\ ~credentials[i].isRevoked
RevokeEnabled(i) == RevokeButton(i) /\ ~loading

\* the Revoke button of the i-th record, and the answer to window.confirm
HandleRevoke(i, confirmed) ==
    /\ view = "issuer" /\ pc = "done"
    /\ RevokeEnabled(i)
    /\ UNCHANGED revokeEnv
    /\ IF ~confirmed
       THEN UNCHANGED <<pc, net, loading, message, retryVars>>
       ELSE IF ~hasWallet
       THEN \* getProvider throws inside getCredentialManagerContract
            /\ net' = NetIdle
            /\ RevokeCatch
            /\ UNCHANGED retryVars
       ELSE /\ loading' = TRUE
            /\ message' = NoMessage
            /\ net' = Send(NetIdle, "getSigner", 0, TRUE)
            /\ ri' = <<0, 0>>
            /\ delays' = <<<<>>, <<>>>>
            /\ pc' = "rv_signer"

\* reply to provider.getSigner() inside getCredentialManagerContract
RevokeSignerReply(out) ==
    /\ view = "issuer" /\ pc = "rv_signer"
    /\ out \in CallOutcomes
    /\ UNCHANGED revokeEnv
    /\ IF out.kind = "ok"
       THEN /\ net' = Send(Recv(net, "getSigner", 0, TRUE), "revokeCredential", 0, FALSE)
            /\ pc' = "rv_tx"
            /\ RetryGone
            /\ UNCHANGED <<loading, message>>
       ELSE IF SignerNext(out.err) = "throw"
       THEN /\ net' = Recv(net, "getSigner", 0, FALSE)
            /\ RevokeCatch
            /\ RetryGone
       ELSE /\ net' = Send(Recv(net, "getSigner", 0, FALSE), "getSigner", 0, TRUE)
            /\ SignerRetry(out.err)
            /\ UNCHANGED <<pc, loading, message>>

\* reply to contract.revokeCredential(credentialId)
RevokeTxReply(out) ==
    /\ view = "issuer" /\ pc = "rv_tx"
    /\ out \in CallOutcomes
    /\ UNCHANGED <<revokeEnv, retryVars>>
    /\ IF out.kind = "ok"
       THEN /\ net' = Send(Recv(net, "revokeCredential", 0, TRUE), "wait", 0, FALSE)
            /\ pc' = "rv_wait"
            /\ UNCHANGED <<loading, message>>
       ELSE /\ net' = Recv(net, "revokeCredential", 0, FALSE)
            /\ RevokeCatch

\* reply to tx.wait(); ethers rejects the wait of a reverted transaction
RevokeWaitReply(out) ==
    /\ view = "issuer" /\ pc = "rv_wait"
    /\ out \in WaitOutcomes
    /\ UNCHANGED <<revokeEnv, retryVars>>
    /\ IF out.kind = "status1"
       THEN /\ net' = Recv(net, "wait", 0, TRUE)
            /\ message' = Msg("success", "Credential revoked successfully!")
            /\ loading' = FALSE
            /\ pc' = "rv_timer"
       ELSE /\ net' = Recv(net, "wait", 0, FALSE)
            /\ RevokeCatch

\* setTimeout(() => loadIssuedCredentials(), 2000) fires
RevokeReload ==
    /\ view = "issuer" /\ pc = "rv_timer"
    /\ UNCHANGED <<account, runs>>
    /\ LoadIssuedCredentials(account)

RevokeNext ==
    \/ \E i \in 1 .. MaxIds, confirmed \in BOOLEAN : HandleRevoke(i, confirmed)
    \/ \E out \in CallOutcomes : RevokeSignerReply(out)
    \/ \E out \in CallOutcomes : RevokeTxReply(out)
    \/ \E out \in WaitOutcomes : RevokeWaitReply(out)
    \/ RevokeReload

\* -------------------------------------------------------- ReceiveDocument

\* what no step of ReceiveDocument touches
receiveEnv == <<fixedEnv, issueOnly, retryVars, listOnly, docVars, aloneVars, account>>

\* a.toLowerCase() === b.toLowerCase() for two addresses ethers normalised
SameAddress(a, b) == toLowerCase(getAddress(a)) = toLowerCase(getAddress(b))

\* the reply to getCredential(credId) in ReceiveDocument
ReceiveReplies ==
    {Rec("fail", 0, 0, FALSE)}
        \cup {Rec("ok", i, s, r) : i \in {0, 2}, s \in Who, r \in BOOLEAN}

\* the catch and finally blocks of loadCredential
ReceiveLoadCatch ==
    /\ message' = Msg("error", "Failed to load document")
    /\ loading' = FALSE
    /\ pc' = "done"

(* The effect on [searchParams]: at mount, or when the URL changes to sp.  *)
(* loadCredential is the closure of the render the effect belongs to, so   *)
(* the issuerAddress it reads is the state before this effect set it.      *)
ReceiveEffect(sp) ==
    /\ view = "receive" /\ pc \in {"idle", "done"}
    /\ runs < MaxLoads
    /\ sp \in SearchParamsInputs
    /\ (pc = "idle" /\ sp = searchParams) \/ (pc = "done" /\ sp # searchParams)
    /\ ~processing
    /\ searchParams' = sp
    /\ runs' = runs + 1
    /\ UNCHANGED <<receiveEnv, credential, processing, success>>
    /\ IF sp.credentialId = 0 \/ falsy(sp.recipient) \/ falsy(sp.issuer)
       THEN /\ message' = Msg("error", "Invalid share URL. Missing required parameters.")
            /\ loading' = FALSE
            /\ pc' = "done"
            /\ net' = NetIdle
            /\ UNCHANGED <<credentialId, recipientAddress, issuerAddress, closureIssuer>>
       ELSE /\ credentialId' = sp.credentialId
            /\ recipientAddress' = sp.recipient
            /\ issuerAddress' = sp.issuer
            /\ closureIssuer' = issuerAddress
            /\ IF falsy(account)
               THEN /\ message' = Msg("error", "Please connect your wallet first")
                    /\ loading' = FALSE
                    /\ pc' = "done"
                    /\ net' = NetIdle
               ELSE IF ~getAddressOk(account) \/ ~getAddressOk(sp.recipient)
               THEN net' = NetIdle /\ ReceiveLoadCatch
               ELSE IF ~SameAddress(account, sp.recipient)
               THEN /\ message' = Msg("error", "This document is intended for a different address")
                    /\ loading' = FALSE
                    /\ pc' = "done"
                    /\ net' = NetIdle
               ELSE IF ~hasWallet
               THEN net' = NetIdle /\ ReceiveLoadCatch
               ELSE /\ loading' = TRUE
                    /\ net' = Send(NetIdle, "getCredential", sp.credentialId, FALSE)
                    /\ pc' = "rc_cred"
                    /\ UNCHANGED message

\* reply to contract.getCredential(credId) in loadCredential
ReceiveCredReply(rec) ==
    /\ view = "receive" /\ pc = "rc_cred"
    /\ rec \in ReceiveReplies
    /\ net' = Recv(net, "getCredential", credentialId, rec.st = "ok")
    /\ UNCHANGED <<receiveEnv, runs, searchParams, credentialId, recipientAddress,
                   issuerAddress, processing, closureIssuer, success>>
    /\ IF rec.st # "ok"
       THEN ReceiveLoadCatch /\ UNCHANGED credential
       ELSE IF ChainAddress(rec.issuer) = ZeroAddress
       THEN /\ message' = Msg("error", "Document not found. It may have been revoked or does not exist.")
            /\ loading' = FALSE
            /\ pc' = "done"
            /\ UNCHANGED credential
       ELSE IF ~SameAddress(ChainAddress(rec.subject), recipientAddress)
       THEN /\ message' = Msg("error", "This document is not intended for your address.")
            /\ loading' = FALSE
            /\ pc' = "done"
            /\ UNCHANGED credential
       ELSE IF falsy(closureIssuer) \/ ~getAddressOk(closureIssuer)
       THEN \* ethers.getAddress(issuerAddress) throws
            ReceiveLoadCatch /\ UNCHANGED credential
       ELSE /\ credential' = Shown(credentialId, rec)
            /\ message' =
                 IF rec.isRevoked
                 THEN Msg("error", "This document has been revoked by the issuer.")
                 ELSE IF ~SameAddress(ChainAddress(rec.issuer), closureIssuer)
                 THEN Msg("warning", "Warning: Issuer address does not match the share URL.")
                 ELSE message
            /\ loading' = FALSE
            /\ pc' = "done"

\* the Accept button is rendered
AcceptShown == view = "receive" /\ ~loading /\ credential # NoCredential /\ ~success
\* an Accept button that looks at processing only
AcceptEnabled_ignoresRevoked == AcceptShown /\ ~processing

\* disabled={processing || credential.isRevoked}
AcceptEnabled == AcceptShown /\ ~(processing \/ credential.isRevoked)
\* the Preview button has no disabled attribute
PreviewEnabled == AcceptShown

\* a catch block with no finally after it
ReceiveCatch_noFinally ==
    /\ message' = Msg("error", "Failed to receive document")
    /\ UNCHANGED processing
    /\ pc' = "done"

\* the catch and finally blocks of handleReceive
ReceiveCatch ==
    /\ message' = Msg("error", "Failed to receive document")
    /\ processing' = FALSE
    /\ pc' = "done"

\* handleReceive up to its first await
HandleReceive ==
    /\ view = "receive" /\ pc = "done"
    /\ AcceptEnabled
    /\ ~falsy(account)
    /\ UNCHANGED <<receiveEnv, runs, searchParams, credentialId, recipientAddress,
                   issuerAddress, credential, closureIssuer, loading, success>>
    /\ IF ~hasWallet \/ ~getAddressOk(account)
       THEN net' = NetIdle /\ ReceiveCatch
       ELSE /\ processing' = TRUE
            /\ message' = NoMessage
            /\ net' = Send(NetIdle, "getCredentialsBySubject", 0, FALSE)
            /\ pc' = "rc_ids"

\* reply to contract.getCredentialsBySubject(ethers.getAddress(account))
ReceiveIdsReply(out) ==
    /\ view = "receive" /\ pc = "rc_ids"
    /\ out \in IdsReplies
    /\ net' = RecvIds(net, "getCredentialsBySubject", 0, out)
    /\ UNCHANGED <<receiveEnv, runs, searchParams, credentialId, recipientAddress,
                   issuerAddress, credential, closureIssuer, loading>>
    /\ IF ~out.ok
       THEN ReceiveCatch /\ UNCHANGED success
       ELSE /\ processing' = FALSE
            /\ pc' = "done"
            /\ IF \E i \in 1 .. Len(out.ids) : out.ids[i] = credential.credentialId
               THEN /\ message' = Msg("info", "You already have this document. Redirecting to My Documents...")
                    /\ UNCHANGED success
               ELSE /\ success' = TRUE
                    /\ message' = Msg("success", "Document received successfully! You can now view it in My Documents.")

ReceiveNext ==
    \/ \E sp \in SearchParamsInputs : ReceiveEffect(sp)
    \/ \E rec \in ReceiveReplies : ReceiveCredReply(rec)
    \/ HandleReceive
    \/ \E out \in IdsReplies : ReceiveIdsReply(out)

\* ------------------------------------------- retryWithBackoff on its own

\* what no step of a stand-alone retryWithBackoff or uploadToIPFS call touches
aloneEnv == <<fixedEnv, account, issueOnly, listOnly, docVars, recvVars, loading,
              message, success, runs, shareOnly>>

\* retryWithBackoff(fn, maxRetries, initialDelay) up to its first await
RetryCall ==
    /\ view = "retry" /\ pc = "idle"
    /\ UNCHANGED <<aloneEnv, fnParams, uploadFile, uploads, walletVars, retryVars,
                   fnLog, fnThrown>>
    /\ IF 0 < fnParams.maxRetries
       THEN /\ net' = Send(NetIdle, "fn", 0, TRUE)
            /\ pc' = "fn"
            /\ UNCHANGED fnResult
       ELSE \* the loop body never runs: the call returns undefined
            /\ net' = NetIdle
            /\ fnResult' = "undefined"
            /\ pc' = "done"

\* fn() settles: the loop returns, throws, or waits and calls fn again
RetryFnReply(out) ==
    /\ view = "retry" /\ pc = "fn"
    /\ out \in CallOutcomes \cup {Failed(E_RPC), Failed(E_OTHER)}
    /\ UNCHANGED <<aloneEnv, fnParams, uploadFile, uploads, walletVars>>
    /\ fnLog' = Append(fnLog, out)
    /\ IF out.kind = "ok"
       THEN /\ net' = Recv(net, "fn", 0, TRUE)
            /\ fnResult' = "returned"
            /\ pc' = "done"
            /\ UNCHANGED <<retryVars, fnThrown>>
       ELSE IF RetryDecision(ri[1], fnParams.maxRetries, out.err) = "throw"
       THEN /\ net' = Recv(net, "fn", 0, FALSE)
            /\ fnResult' = "threw"
            /\ fnThrown' = out.err
            /\ pc' = "done"
            /\ UNCHANGED retryVars
       ELSE /\ net' = Send(Recv(net, "fn", 0, FALSE), "fn", 0, TRUE)
            /\ RetryAgain(fnParams.initialDelay)
            /\ UNCHANGED <<pc, fnResult, fnThrown>>

\* ------------------------------------------------- uploadToIPFS on its own

\* uploadToIPFS(file) up to its await
UploadCall(file) ==
    /\ view = "upload" /\ pc \in {"idle", "done"}
    /\ Len(uploads) < MaxRuns
    /\ file \in Files
    /\ uploadFile' = file
    /\ net' = Send(NetIdle, "upload", 0, FALSE)
    /\ pc' = "up"
    /\ UNCHANGED <<aloneEnv, fnParams, retryLog, uploads, walletVars, retryVars>>

\* the reply to the one axios.post of the call
UploadReply(resp) ==
    /\ view = "upload" /\ pc = "up"
    /\ resp \in UploadResponses(pinataJWT)
    /\ net' = Recv(net, "upload", 0, resp.status = "ok")
    /\ uploads' = Append(uploads, [file |-> uploadFile, resp |-> resp,
                                   result |-> uploadToIPFS(pinataJWT, resp),
                                   requests |-> net.issued["upload"]])
    /\ pc' = "done"
    /\ UNCHANGED <<aloneEnv, fnParams, retryLog, uploadFile, walletVars, retryVars>>

\* ------------------------------------------------ connectWallet on its own

\* n.toString(16), as the sequence of its hex digits
RECURSIVE toString16(_)
toString16(n) == IF n < 16 THEN <<n>> ELSE Append(toString16(n \div 16), n % 16)

\* a target written with the decimal digits of the chain id
targetChainId_decimal == <<1, 3, 3, 7>>

\* const targetChainId = `0x${NETWORK_CONFIG.chainId.toString(16)}`
targetChainId == toString16(NetworkChainId)

\* what eth_requestAccounts can answer: a rejection or the accounts unlocked
AccountsReplies ==
    {IdsReply(FALSE, <<>>), IdsReply(TRUE, <<>>),
     IdsReply(TRUE, <<Str(1, "lower", TRUE, FALSE)>>),
     IdsReply(TRUE, <<Str(2, "lower", TRUE, FALSE), Str(1, "lower", TRUE, FALSE)>>)}

\* what eth_chainId can answer: a failure or the hex digits after "0x"
ChainIdReplies ==
    {IdsReply(FALSE, <<>>), IdsReply(TRUE, <<5, 3, 9>>), IdsReply(TRUE, <<1>>),
     IdsReply(TRUE, <<1, 3, 3, 7>>)}

\* how wallet_switchEthereumChain and wallet_addEthereumChain can settle:
\* done, chain unknown to the wallet (4902), or rejected by the user
ChainOutcomes ==
    {Out("ok", E_OTHER), Failed(Err({}, 4902)), Failed(Err({"user rejected"}, 4001))}

\* what no step of a connectWallet call touches
connectEnv == <<aloneEnv, fnParams, retryLog, uploadFile, uploads, retryVars>>

\* the request awaited has settled (ok: it resolved) and the next one,
\* window.ethereum.request({ method }), is made
Request(settled, ok, method) ==
    /\ net' = Send(Recv(net, settled, 0, ok), method, 0, FALSE)
    /\ requests' = Append(requests, method)

\* the outer catch: throw new Error(`Failed to connect wallet: ${error.message}`)
ConnectCatch(e) ==
    /\ connectResult' = Connect("thrown", NoAccount, "Failed to connect wallet", e)
    /\ pc' = "done"

\* return accounts[0]
ConnectReturn ==
    /\ connectResult' =
          Connect("returned", IF accounts = <<>> THEN NoAccount ELSE accounts[1],
                  "", E_OTHER)
    /\ pc' = "done"

\* connectWallet() up to its first await
ConnectWallet ==
    /\ view = "connect" /\ pc \in {"idle", "done"}
    /\ runs < MaxRuns
    /\ runs' = runs + 1
    /\ accounts' = <<>>
    /\ UNCHANGED <<fixedEnv, account, issueOnly, listOnly, docVars, recvVars,
                   loading, message, success, fnParams, retryLog, uploadFile,
                   uploads, retryVars, shareOnly>>
    /\ IF ~hasWallet
       THEN \* checkMetaMask() is false: thrown outside the try block
            /\ connectResult' =
                  Connect("thrown", NoAccount, "MetaMask is not installed", E_OTHER)
            /\ net' = NetIdle
            /\ requests' = <<>>
            /\ pc' = "done"
       ELSE /\ net' = Send(NetIdle, "eth_requestAccounts", 0, FALSE)
            /\ requests' = <<"eth_requestAccounts">>
            /\ connectResult' = NotConnected
            /\ pc' = "cw_accounts"

\* reply to eth_requestAccounts
ConnectAccountsReply(out) ==
    /\ view = "connect" /\ pc = "cw_accounts"
    /\ out \in AccountsReplies
    /\ UNCHANGED connectEnv
    /\ IF out.ok
       THEN /\ accounts' = out.ids
            /\ Request("eth_requestAccounts", TRUE, "eth_chainId")
            /\ pc' = "cw_chain"
            /\ UNCHANGED connectResult
       ELSE /\ net' = Recv(net, "eth_requestAccounts", 0, FALSE)
            /\ ConnectCatch(Err({"user rejected"}, 4001))
            /\ UNCHANGED <<accounts, requests>>

\* reply to eth_chainId
ConnectChainReply(out) ==
    /\ view = "connect" /\ pc = "cw_chain"
    /\ out \in ChainIdReplies
    /\ UNCHANGED <<connectEnv, accounts>>
    /\ IF ~out.ok
       THEN /\ net' = Recv(net, "eth_chainId", 0, FALSE)
            /\ ConnectCatch(E_OTHER)
            /\ UNCHANGED requests
       ELSE IF out.ids # targetChainId
       THEN /\ Request("eth_chainId", TRUE, "wallet_switchEthereumChain")
            /\ pc' = "cw_switch"
            /\ UNCHANGED connectResult
       ELSE /\ net' = Recv(net, "eth_chainId", 0, TRUE)
            /\ ConnectReturn
            /\ UNCHANGED requests

\* wallet_switchEthereumChain settles
ConnectSwitchReply(out) ==
    /\ view = "connect" /\ pc = "cw_switch"
    /\ out \in ChainOutcomes
    /\ UNCHANGED <<connectEnv, accounts>>
    /\ IF out.kind = "ok"
       THEN /\ net' = Recv(net, "wallet_switchEthereumChain", 0, TRUE)
            /\ ConnectReturn
            /\ UNCHANGED requests
       ELSE IF out.err.code = 4902
       THEN /\ Request("wallet_switchEthereumChain", FALSE, "wallet_addEthereumChain")
            /\ pc' = "cw_add"
            /\ UNCHANGED connectResult
       ELSE \* throw switchError
            /\ net' = Recv(net, "wallet_switchEthereumChain", 0, FALSE)
            /\ ConnectCatch(out.err)
            /\ UNCHANGED requests

\* wallet_addEthereumChain settles
ConnectAddReply(out) ==
    /\ view = "connect" /\ pc = "cw_add"
    /\ out \in ChainOutcomes
    /\ UNCHANGED <<connectEnv, accounts, requests>>
    /\ net' = Recv(net, "wallet_addEthereumChain", 0, out.kind = "ok")
    /\ IF out.kind = "ok" THEN ConnectReturn ELSE ConnectCatch(out.err)

AloneNext ==
    \/ ConnectWallet
    \/ \E out \in AccountsReplies : ConnectAccountsReply(out)
    \/ \E out \in ChainIdReplies : ConnectChainReply(out)
    \/ \E out \in ChainOutcomes : ConnectSwitchReply(out)
    \/ \E out \in ChainOutcomes : ConnectAddReply(out)
    \/ RetryCall
    \/ \E out \in CallOutcomes \cup {Failed(E_RPC), Failed(E_OTHER)} : RetryFnReply(out)
    \/ \E file \in Files : UploadCall(file)
    \/ \E resp \in PinataResponses \cup PublicResponses : UploadReply(resp)

\* ------------------------------------ MyDocuments: loadCredentials, overlapping

(* loadCredentials has no guard against a call made while another is in    *)
(* flight: each call is a closure over the account of the render that      *)
(* created it, runs to its end, and writes credentials and loading when it *)
(* gets there.  A call in flight is a record of its closure's account and  *)
(* locals; raced records that a trigger came while it was in flight, or    *)
(* that it was started while another call was.                             *)
Load(a, r) ==
    [acct |-> a, pc |-> "total", vx |-> 0, variants |-> <<>>, ids |-> <<>>,
     results |-> NoResults, raced |-> r]

\* the accounts the wallet can switch between
RaceAccounts == {NoAccount, Str(1, "lower", TRUE, FALSE), Str(2, "check", TRUE, FALSE)}

\* the reply to getCredential(id) asked on behalf of account a
RaceCredReplies(a) ==
    {Rec("fail", 0, 0, FALSE)} \cup {Rec("ok", 2, a.who, r) : r \in BOOLEAN}

Without(s, k) == SubSeq(s, 1, k - 1) \o SubSeq(s, k + 1, Len(s))

Raced(ls) == [k \in 1 .. Len(ls) |-> [ls[k] EXCEPT !.raced = TRUE]]

\* what no step of MyDocuments' loads touches
raceEnv == <<view, hasWallet, pinataJWT, hasProvider, pc, net, message, success,
             issueOnly, retryVars, loadingCredentials, error, loadLocals,
             docVars, recvVars, aloneVars>>

\* loadCredentials(), a closure over account a, up to its first await
CallLoadCredentials(a, ls) ==
    IF falsy(a) \/ ~startsWith0x(a) \/ ~hasWallet \/ ~getAddressOk(a)
    THEN \* the early return, or the throw before the first await
         /\ loading' = FALSE
         /\ credentials' = <<>>
         /\ shownFor' = a
         /\ loads' = Raced(ls)
    ELSE /\ loading' = TRUE
         /\ loads' = Append(Raced(ls), Load(a, ls # <<>>))
         /\ UNCHANGED <<credentials, shownFor>>

\* a call in flight stores list l and ends: setCredentials, setLoading(false)
LoadEnds(k, l) ==
    /\ credentials' = l
    /\ loading' = FALSE
    /\ shownFor' = loads[k].acct
    /\ loads' = Without(loads, k)

\* the mount effect on [account]
RaceMount ==
    /\ view = "mydocs" /\ runs = 0
    /\ runs' = 1
    /\ CallLoadCredentials(account, loads)
    /\ UNCHANGED <<raceEnv, account, timers>>

\* the account prop changes to a and the effect on [account] runs
RaceAccountChange(a) ==
    /\ view = "mydocs" /\ runs > 0 /\ runs < MaxRaceLoads
    /\ a \in RaceAccounts \ {account}
    /\ account' = a
    /\ runs' = runs + 1
    /\ CallLoadCredentials(a, loads)
    /\ UNCHANGED <<raceEnv, timers>>

\* Refresh, disabled={loading}
RaceRefresh ==
    /\ view = "mydocs" /\ runs > 0 /\ runs < MaxRaceLoads
    /\ ~loading
    /\ runs' = runs + 1
    /\ CallLoadCredentials(account, loads)
    /\ UNCHANGED <<raceEnv, account, timers>>

\* handleCredentialIssued: setTimeout(() => loadCredentials(), 2000)
RaceCredentialIssued ==
    /\ view = "mydocs" /\ runs > 0 /\ runs + Len(timers) < MaxRaceLoads
    /\ timers' = Append(timers, account)
    /\ UNCHANGED <<raceEnv, account, runs, loading, credentials, loads, shownFor>>

\* the oldest timer fires: nothing clears it when the account changes
RaceTimerFires ==
    /\ view = "mydocs" /\ timers # <<>>
    /\ timers' = Tail(timers)
    /\ runs' = runs + 1
    /\ CallLoadCredentials(Head(timers), loads)
    /\ UNCHANGED <<raceEnv, account>>

\* reply to contract.getTotalCredentials() of the k-th call in flight
RaceTotalReply(k, out) ==
    /\ view = "mydocs" /\ k \in 1 .. Len(loads) /\ loads[k].pc = "total"
    /\ out \in {"zero", "some", "fail"}
    /\ UNCHANGED <<raceEnv, account, runs, timers>>
    /\ IF out = "zero"
       THEN LoadEnds(k, <<>>)
       ELSE /\ loads' = [loads EXCEPT ![k].pc = "ids",
                                      ![k].variants = MyDocsVariants(loads[k].acct),
                                      ![k].vx = 1]
            /\ UNCHANGED <<credentials, loading, shownFor>>

\* reply to getCredentialsBySubject(addressVariant) of the k-th call
RaceVariantReply(k, out) ==
    /\ view = "mydocs" /\ k \in 1 .. Len(loads) /\ loads[k].pc = "ids"
    /\ out \in IdsReplies
    /\ UNCHANGED <<raceEnv, account, runs, timers>>
    /\ IF out.ok /\ out.ids # <<>>
       THEN /\ loads' = [loads EXCEPT ![k].pc = "creds",
                                      ![k].ids = out.ids,
                                      ![k].results = PendingFor(out.ids)]
            /\ UNCHANGED <<credentials, loading, shownFor>>
       ELSE IF loads[k].vx < Len(loads[k].variants)
       THEN /\ loads' = [loads EXCEPT ![k].vx = @ + 1]
            /\ UNCHANGED <<credentials, loading, shownFor>>
       ELSE LoadEnds(k, <<>>)

\* reply to one getCredential(id) of the k-th call; the last one settles
\* Promise.all
RaceReadReply(k, id, rec) ==
    /\ view = "mydocs" /\ k \in 1 .. Len(loads) /\ loads[k].pc = "creds"
    /\ id \in CredIds /\ rec \in RaceCredReplies(loads[k].acct)
    /\ loads[k].results[id].st = "pending"
    /\ UNCHANGED <<raceEnv, account, runs, timers>>
    /\ LET res == [loads[k].results EXCEPT ![id] =
                      IF rec.st # "ok" THEN NullRec
                      ELSE [rec EXCEPT !.fields =
                               DisplayFields(getMetadata(localStorage, id))]]
       IN IF AllSettled(res)
          THEN LoadEnds(k, Collect(loads[k].ids, res, TRUE))
          ELSE /\ loads' = [loads EXCEPT ![k].results = res]
               /\ UNCHANGED <<credentials, loading, shownFor>>

RaceInit ==
    /\ view = "mydocs"
    /\ account \in RaceAccounts
    /\ InitState

RaceNext ==
    \/ RaceMount
    \/ \E a \in RaceAccounts : RaceAccountChange(a)
    \/ RaceRefresh
    \/ RaceCredentialIssued
    \/ RaceTimerFires
    \/ \E k \in 1 .. MaxRaceLoads, out \in {"zero", "some", "fail"} : RaceTotalReply(k, out)
    \/ \E k \in 1 .. MaxRaceLoads, out \in IdsReplies : RaceVariantReply(k, out)
    \/ \E k \in 1 .. MaxRaceLoads, id \in CredIds, rec \in CredReplies \cup UNION {RaceCredReplies(a) : a \in RaceAccounts} :
          RaceReadReply(k, id, rec)

RaceSpec == RaceInit /\ [][RaceNext]_vars

Next == IssueNext \/ ListNext \/ DocsNext \/ RevokeNext \/ ReceiveNext \/ AloneNext

Spec == Init /\ [][Next]_vars

\* =================================================================== claims

\* a string that spells an Ethereum address: 40 hex digits, with or without
\* the prefix, in one case or with its checksum casing, and nothing else
ValidAddress(s) == s.form \in {"lower", "upper", "check"} /\ ~s.ws

\* the views that list the records of the connected account
AccountLists == {"mydocs", "issuer", "share"}

(* C1: IssueDocument.handleIssue called with a recipient field that is,    *)
(* once trimmed, empty or not a valid address has returned with an error   *)
(* message, without any remote call and without setting the loading flag.  *)
C1_InvalidRecipientRejected ==
    (view = "issue" /\ pc # "idle" /\ ~ValidAddress(trimmedAddress)) =>
        /\ pc = "done"
        /\ message.type = "error"
        /\ TotalIssued(net) = 0
        /\ ~loading

\* a malformed recipient is rejected although a file is chosen and a wallet
\* is present
C1_Witness ==
    /\ view = "issue" /\ pc = "done"
    /\ trimmedAddress.form \in {"nonhex", "badcheck", "short"}
    /\ selectedFile # "" /\ hasWallet
    /\ message = Msg("error", "Invalid Ethereum address format")

Listings == {"mydocs", "issuer", "share", "legacy"}

\* the loading flag of the list on display
ListLoading == IF view = "issuer" THEN loadingCredentials ELSE loading

\* the view shows an error
ErrorShown == message.type = "error" \/ error # ""

(* C3, as stated: no control of a displayed record whose revocation flag   *)
(* is set is enabled, in MyDocuments, IssuerDashboard and ReceiveDocument. *)
C3_RevokedNonActionable ==
    /\ \A i \in 1 .. MaxIds :
          (DocCardShown(i) /\ credentials[i].isRevoked)
              => (~EditButton(i) /\ ~ViewButton(i))
    /\ \A i \in 1 .. MaxIds :
          (IssuerCardShown(i) /\ credentials[i].isRevoked)
              => (~IssuerViewButton(i) /\ ~RevokeEnabled(i))
    /\ (AcceptShown /\ credential.isRevoked) => (~PreviewEnabled /\ ~AcceptEnabled)

(* C3, amended: for a displayed record whose revocation flag is set the    *)
(* Revoke button is not rendered and the Accept button is disabled, while  *)
(* viewing (View, Preview) stays enabled and, in MyDocuments, so does Edit *)
(* unless that record is already being edited.                             *)
C3_RevokedCannotBeRevokedOrAccepted ==
    /\ \A i \in 1 .. MaxIds :
          (DocCardShown(i) /\ credentials[i].isRevoked)
              => (EditButton(i) /\ ViewButton(i))
                    \/ editingCredential = credentials[i].credentialId
    /\ \A i \in 1 .. MaxIds :
          (IssuerCardShown(i) /\ credentials[i].isRevoked)
              => (IssuerViewButton(i) /\ ~RevokeButton(i) /\ ~RevokeEnabled(i))
    /\ (AcceptShown /\ credential.isRevoked) => (PreviewEnabled /\ ~AcceptEnabled)

\* ReceiveDocument displays a revoked record
C3_Witness ==
    /\ AcceptShown /\ pc = "done"
    /\ credential.isRevoked
    /\ ~processing

(* C4: in MyDocuments, IssuerDashboard, ShareDocument and                  *)
(* CredentialManagement a load whose id-list query came back empty, and    *)
(* which found no id, has finished with the loading flag false, the       *)
(* list's error state unset and an empty record list.                      *)
C4_EmptyIdListEndsEmpty ==
    (view \in Listings /\ pc = "done" /\ IdsMethod(view) \in net.empty
        /\ credentialIds = <<>>)
        => (~ListLoading /\ error = "" /\ credentials = <<>>)

\* a second load of MyDocuments asked under every spelling and got nothing
C4_Witness ==
    /\ view = "mydocs" /\ pc = "done" /\ runs = 2
    /\ net.failed = {}
    /\ net.issued["getCredentialsBySubject"] = Len(addressVariants)
    /\ Len(addressVariants) > 1
    /\ credentials = <<>> /\ ~loading

\* calls that run under retryWithBackoff: a later attempt may make up for
\* a failed one
RetriedMethods == {"getSigner", "issueCredential", "wait", "fn"}

(* C5: an action in which a remote call failed (and no retry made up for   *)
(* it) has ended with the view showing an error.                           *)
C5_FailureShowsError ==
    (pc = "done" /\ (net.failed \ RetriedMethods) # {}) => ErrorShown

\* MyDocuments: every id-list read failed and the view shows an empty list
C5_Witness ==
    /\ view = "mydocs" /\ pc = "done"
    /\ {"getTotalCredentials", "getCredentialsBySubject"} \subseteq net.failed
    /\ net.empty = {}
    /\ credentials = <<>> /\ ~loading
    /\ ~ErrorShown

(* C6, as stated: an action never has two remote calls in flight.          *)
C6_OneCallInFlight == Cardinality(net.inflight) <= 1

(* C6, amended: an action has two remote calls in flight only while a list *)
(* load reads its records: the calls in flight together are getCredential  *)
(* reads of a listing view, one per id.                                    *)
C6_OnlyRecordReadsOverlap ==
    \A c1, c2 \in net.inflight :
        c1 # c2 => /\ view \in Listings
                   /\ c1.m = "getCredential" /\ c2.m = "getCredential"
                   /\ c1.arg # c2.arg

\* MyDocuments has the reads of two records in flight
C6_Witness ==
    /\ view = "mydocs" /\ pc = "creds"
    /\ Cardinality(net.inflight) = 2

\* the waits of both nesting levels of retryWithBackoff
AllDelays == {delays[1], delays[2]}

(* C7, as stated: every wait of one retryWithBackoff call is the same.     *)
C7_FixedBackoff ==
    \A d \in AllDelays : \A i, j \in 1 .. Len(d) : d[i] = d[j]

(* C7, amended: the backoff is exponential: each wait of a                 *)
(* retryWithBackoff call is twice the wait before it.                      *)
C7_BackoffDoubles ==
    \A d \in AllDelays : \A i \in 2 .. Len(d) : d[i] = 2 * d[i - 1]

\* a stand-alone call has waited twice
C7_Witness ==
    /\ view = "retry"
    /\ Len(delays[1]) >= 2
    /\ delays[1][2] > delays[1][1]

(* C8, as stated: outside retryWithBackoff no action repeats a remote call *)
(* of which an attempt failed or came back empty.                          *)
C8_NoReattemptOutsideWrapper == \A m \in Methods : net.reattempts[m] = 0

(* C8, amended: outside retryWithBackoff a call is repeated in two loops   *)
(* only: handleIssue's read-back of the new record (five attempts, so up   *)
(* to four repeats) and the id-list query of MyDocuments and               *)
(* IssuerDashboard, asked again for each further spelling of the account.  *)
C8_ReattemptsOnlyInTwoLoops ==
    \A m \in Methods :
        net.reattempts[m] > 0 =>
            \/ /\ view = "issue" /\ m = "getCredential"
               /\ net.reattempts[m] <= 4
            \/ /\ view \in {"mydocs", "issuer"} /\ m = IdsMethod(view)
               /\ net.reattempts[m] <= Len(addressVariants) - 1

\* handleIssue read the record back five times
C8_Witness ==
    /\ view = "issue"
    /\ net.reattempts["getCredential"] = 4
    /\ net.issued["getCredential"] = 5

(* C9: metadata lives under the one key credential_metadata_<id> of its    *)
(* record: a save that changes the storage leaves getMetadata of the saved *)
(* id equal to the form saved and getMetadata of every other id as it was, *)
(* and getMetadata of an id with no item or an unparsable one is null.     *)
C9_MetadataPerRecord ==
    /\ [](\A id \in CredIds :
            /\ getMetadataKey(id) = <<"credential_metadata_", id>>
            /\ (~localStorage[<<"credential_metadata_", id>>].present
                  \/ ~JSONparses(localStorage[<<"credential_metadata_", id>>].chars))
                 => getMetadata(localStorage, id) = Null)
    /\ [][localStorage' # localStorage =>
            /\ editingCredential \in CredIds
            /\ getMetadata(localStorage', editingCredential) = Some(editForm)
            /\ \A id \in CredIds \ {editingCredential} :
                  getMetadata(localStorage', id) = getMetadata(localStorage, id)]_vars

\* record 2 was saved next to record 1, whose item does not parse
C9_Witness ==
    /\ view = "mydocs"
    /\ localStorage[getMetadataKey(1)] = JunkItem
    /\ getMetadata(localStorage, 1) = Null
    /\ \E m \in FormInputs : getMetadata(localStorage, 2) = Some(m)

\* the identifiers a reply carries
CidsOf(resp) == {resp.IpfsHash, resp.Hash, resp.hash} \ {""}

(* C10: every uploadToIPFS call made one upload request, and one that      *)
(* returned, returned an identifier its own reply carried.                 *)
C10_OneRequestOwnCid ==
    /\ (view = "upload" /\ pc = "up") => net.issued["upload"] = 1
    /\ \A i \in 1 .. Len(uploads) :
          /\ uploads[i].requests = 1
          /\ uploads[i].result.ok => uploads[i].result.value \in CidsOf(uploads[i].resp)

\* the same file uploaded twice came back under two identifiers
C10_Witness ==
    /\ Len(uploads) = 2
    /\ uploads[1].file = uploads[2].file
    /\ uploads[1].result.ok /\ uploads[2].result.ok
    /\ uploads[1].result.value # uploads[2].result.value

\* the reply describes the record a share URL for this recipient and issuer
\* was generated from
MatchesUrl(rec) ==
    /\ rec.st = "ok" /\ rec.issuer # 0 /\ ~rec.isRevoked
    /\ SameAddress(ChainAddress(rec.subject), recipientAddress)
    /\ getAddressOk(issuerAddress)
    /\ SameAddress(ChainAddress(rec.issuer), issuerAddress)

(* C11: when ReceiveDocument was opened with all three parameters, by the  *)
(* recipient, and the contract answers with the record of the URL (subject *)
(* the recipient, issuer the URL's issuer), the load ends with the record  *)
(* displayed, the loading flag false and no error message.                 *)
C11_ShareUrlCanBeReceived ==
    [][\A rec \in ReceiveReplies :
          (ReceiveCredReply(rec) /\ MatchesUrl(rec))
              => /\ credential' = Shown(credentialId, rec)
                 /\ ~loading'
                 /\ message'.type # "error"]_vars

\* the first load of a complete URL by its recipient read the record and
\* ended with 'Failed to load document'
C11_Witness ==
    /\ view = "receive" /\ pc = "done" /\ runs = 1
    /\ SameAddress(account, recipientAddress)
    /\ net.issued["getCredential"] = 1 /\ net.failed = {}
    /\ credential = NoCredential
    /\ message = Msg("error", "Failed to load document")

\* the requests of connectWallet in the one order it can make them
ConnectOrder ==
    <<"eth_requestAccounts", "eth_chainId", "wallet_switchEthereumChain",
      "wallet_addEthereumChain">>

\* the requests made so far are the first ones of ConnectOrder, and a call
\* without a wallet threw before making any; the switch is requested
\* exactly on a chain id other than 0x539, the add exactly on a switch that
\* failed with code 4902
ConnectRequestsInOrder ==
    /\ [](view = "connect" =>
            /\ Len(requests) <= 4
            /\ \A i \in 1 .. Len(requests) : requests[i] = ConnectOrder[i]
            /\ (~hasWallet /\ pc = "done")
                 => (requests = <<>> /\ connectResult.st = "thrown"))
    /\ [][\A out \in ChainIdReplies :
            ConnectChainReply(out)
              => (Len(requests') = 3 <=> (out.ok /\ out.ids # <<5, 3, 9>>))]_vars
    /\ [][\A out \in ChainOutcomes :
            ConnectSwitchReply(out)
              => (Len(requests') = 4 <=> (out.kind = "error" /\ out.err.code = 4902))]_vars

\* connectWallet threw 'Failed to connect wallet: ...' and returned no account
ConnectFailed ==
    /\ connectResult.st = "thrown"
    /\ connectResult.text = "Failed to connect wallet"
    /\ connectResult.account = NoAccount

(* C12, as stated: connectWallet makes its requests in the fixed order,    *)
(* returns the first account only if no request failed, and throws         *)
(* 'Failed to connect wallet' whenever a request failed.                   *)
C12_ConnectAnyFailureThrown ==
    /\ ConnectRequestsInOrder
    /\ []((view = "connect" /\ pc = "done" /\ hasWallet) =>
            /\ connectResult.st = "returned" => net.failed = {}
            /\ net.failed # {} => ConnectFailed
            /\ net.failed = {} =>
                 (connectResult.st = "returned" /\ accounts # <<>>
                    => connectResult.account = accounts[1]))

\* the failures connectWallet does not recover from: every failed request
\* but a switch that failed with 4902 and was followed by the add request
ConnectFatal ==
    IF Len(requests) = 4 THEN net.failed \ {"wallet_switchEthereumChain"}
    ELSE net.failed

(* C12, amended: connectWallet makes its requests in the fixed order; a    *)
(* switch that fails with code 4902 is made up for by the add request, and *)
(* the first account is returned exactly when no other request failed;     *)
(* every other failure is thrown as 'Failed to connect wallet' and no      *)
(* account is returned.                                                    *)
C12_ConnectOrderAndResult ==
    /\ ConnectRequestsInOrder
    /\ []((view = "connect" /\ pc = "done" /\ hasWallet) =>
            /\ connectResult.st = "returned" <=> ConnectFatal = {}
            /\ ConnectFatal # {} => ConnectFailed
            /\ (connectResult.st = "returned" /\ accounts # <<>>)
                 => connectResult.account = accounts[1])

\* the wallet did not know the chain: the switch failed, the add went
\* through and the first of two accounts was returned
C12_Witness ==
    /\ view = "connect" /\ pc = "done"
    /\ requests = ConnectOrder
    /\ net.failed = {"wallet_switchEthereumChain"}
    /\ Len(accounts) = 2
    /\ connectResult = Connect("returned", accounts[1], "", E_OTHER)

\* a stand-alone retryWithBackoff call with maxRetries >= 1
RetryCalled == view = "retry" /\ fnParams.maxRetries >= 1

\* every invocation of fn so far failed with an error the wrapper retries
AllRetryable ==
    \A i \in 1 .. Len(fnLog) : fnLog[i].kind = "error" /\ Retryable(fnLog[i].err)

(* C13: retryWithBackoff with maxRetries >= 1 invokes fn at most           *)
(* maxRetries times; when it returned, the last invocation is the only one *)
(* that succeeded and no invocation follows it; when every invocation      *)
(* failed with a retryable error it made maxRetries invocations and threw  *)
(* the error of the last one.                                              *)
C13_RetryBoundedFirstSuccess ==
    RetryCalled =>
        /\ net.issued["fn"] <= fnParams.maxRetries
        /\ Len(fnLog) <= net.issued["fn"]
        /\ fnResult = "returned" =>
              /\ pc = "done" /\ net.inflight = {}
              /\ net.issued["fn"] = Len(fnLog)
              /\ fnLog[Len(fnLog)].kind = "ok"
              /\ \A i \in 1 .. (Len(fnLog) - 1) : fnLog[i].kind = "error"
        /\ (pc = "done" /\ AllRetryable) =>
              /\ fnResult = "threw"
              /\ Len(fnLog) = fnParams.maxRetries
              /\ fnThrown = fnLog[Len(fnLog)].err

\* fn failed twice and the third, last allowed invocation returned
C13_Witness ==
    /\ RetryCalled /\ pc = "done"
    /\ fnParams.maxRetries = 3 /\ Len(fnLog) = 3
    /\ fnLog[1].kind = "error" /\ fnLog[2].kind = "error"
    /\ fnResult = "returned"

\* the initialDelay of the retryWithBackoff call that is running
RunningInitialDelay ==
    IF view = "retry" THEN fnParams.initialDelay
    ELSE IF view = "issue" /\ pc \in {"tx", "wait"} THEN IssueInitialDelay
    ELSE DefaultInitialDelay

(* C14: the wait after the i-th failed attempt (i from 0) of a             *)
(* retryWithBackoff call is initialDelay * 2^i, there is one wait per      *)
(* attempt that was followed by another one, and none after the final      *)
(* attempt.                                                                *)
C14_ExponentialNoTrailingWait ==
    /\ \A k \in 1 .. Len(delays[1]) :
          delays[1][k] = RunningInitialDelay * (2 ^ (k - 1))
    /\ \A k \in 1 .. Len(delays[2]) :
          delays[2][k] = DefaultInitialDelay * (2 ^ (k - 1))
    /\ Len(delays[1]) = ri[1] /\ Len(delays[2]) = ri[2]
    /\ RetryCalled =>
          /\ ri[1] < fnParams.maxRetries
          /\ net.issued["fn"] > 0 => Len(delays[1]) = net.issued["fn"] - 1
          /\ pc = "done" => Len(delays[1]) = Len(fnLog) - 1

\* three attempts with a 2 s initial delay failed: the call waited 2 s and
\* 4 s, and threw after the third without waiting
C14_Witness ==
    /\ RetryCalled /\ pc = "done" /\ fnResult = "threw"
    /\ fnParams = RetryParams(3, 2000)
    /\ Len(fnLog) = 3
    /\ delays[1] = <<2000, 4000>>

\* an error retryWithBackoff is said to recognise as an RPC / network error
RecognisedError(e) ==
    \/ e.text \cap {"RPC endpoint", "too many errors", "network"} # {}
    \/ e.code = -32002

(* C15: retryWithBackoff invokes fn again only after an error it           *)
(* recognises as an RPC / network error; an invocation that fails with any *)
(* other error is the last one: the call throws that error with no wait    *)
(* and no further invocation.                                              *)
C15_OnlyRecognisedErrorsRetried ==
    RetryCalled =>
        \A k \in 1 .. Len(fnLog) :
            /\ k < net.issued["fn"] =>
                  (fnLog[k].kind = "error" /\ RecognisedError(fnLog[k].err))
            /\ (fnLog[k].kind = "error" /\ ~RecognisedError(fnLog[k].err)) =>
                  /\ k = Len(fnLog) /\ net.issued["fn"] = k
                  /\ pc = "done" /\ fnResult = "threw"
                  /\ fnThrown = fnLog[k].err
                  /\ Len(delays[1]) = k - 1

\* the first invocation was rejected by the user: thrown at once although
\* two more attempts were allowed
C15_Witness ==
    /\ RetryCalled /\ pc = "done"
    /\ fnParams.maxRetries = 3
    /\ fnLog = <<Failed(Err({"user rejected"}, 4001))>>
    /\ fnResult = "threw" /\ fnThrown.code = 4001
    /\ delays[1] = <<>>

\* the views whose load tries the address variants of the account
VariantViews == {"mydocs", "issuer"}

\* the load on display has queried at least one variant
VariantsQueried == view \in VariantViews /\ net.issued[IdsMethod(view)] > 0

IssueSteps ==
    <<"getBlockNumber", "upload", "getSigner", "issueCredential", "wait",
      "getCredential">>

\* handleIssue has ended in its catch block with nothing left in flight
IssueAborted ==
    /\ pc = "done"
    /\ message.type = "error"
    /\ ~loading
    /\ ~success
    /\ net.inflight = {}

\* the step of method m is called once more and no other call is made
IssueSameStep(m) ==
    /\ pc' = pc
    /\ net'.inflight = {Call(m, 0)}
    /\ \A o \in Methods \ {m} : net'.issued[o] = net.issued[o]

(* C17: handleIssue makes its remote calls in the order RPC check, upload, *)
(* (signer), issueCredential, wait, read-back; a step is only started once *)
(* the one before it was made and has settled; a failing reply to a step   *)
(* before the read-back ends the action with an error message and nothing  *)
(* in flight (or, inside retryWithBackoff, repeats that same step); and    *)
(* issueCredential is only sent with a non-empty content identifier that   *)
(* the upload returned.                                                    *)
C17_IssueStepsInOrder ==
    /\ [](view = "issue" =>
            /\ \A k \in 2 .. Len(IssueSteps) :
                  net.issued[IssueSteps[k]] > 0 =>
                      /\ net.issued[IssueSteps[k - 1]] > 0
                      /\ Call(IssueSteps[k - 1], 0) \notin net.inflight
            /\ net.issued["upload"] > 0 => "getBlockNumber" \notin net.failed
            /\ net.issued["getSigner"] > 0 =>
                  /\ "upload" \notin net.failed
                  /\ net.issued["upload"] = 1
            /\ net.issued["issueCredential"] > 0 => ipfsHash \in Cids)
    /\ [][view = "issue" =>
            /\ IssueRpcReply(FALSE) => IssueAborted'
            /\ \A resp \in PinataResponses \cup PublicResponses :
                  IssueUploadReply(resp) =>
                      IF resp.status = "ok" /\ CidsOf(resp) # {}
                      THEN ipfsHash' \in CidsOf(resp) /\ pc' = "signer"
                      ELSE IssueAborted' /\ net'.issued = net.issued
            /\ \A out \in CallOutcomes \ {Out("ok", E_OTHER)} :
                  /\ IssueSignerReply(out) => IssueAborted' \/ IssueSameStep("getSigner")
                  /\ IssueTxReply(out) => IssueAborted' \/ IssueSameStep("issueCredential")
                  /\ IssueWaitReply(out) => IssueAborted' \/ IssueSameStep("wait")
            /\ IssueWaitReply(Out("status0", E_OTHER)) =>
                  IssueAborted' /\ net'.issued = net.issued]_vars

\* the upload answered without a usable identifier and the action ended
\* there: no signer was asked for and no transaction sent
C17_Witness ==
    /\ view = "issue"
    /\ IssueAborted
    /\ net.issued["upload"] = 1
    /\ "upload" \in net.failed
    /\ "getBlockNumber" \notin net.failed
    /\ net.issued["getSigner"] = 0
    /\ net.issued["issueCredential"] = 0

\* handleIssue is in its read-back verification
IssueVerifying == pc \in {"verify", "verifyIssuer", "verifySubject"}

\* the step is the success tail of handleIssue
IssueReportsSuccess ==
    /\ pc' = "done"
    /\ success'
    /\ message'.type = "success"
    /\ subjectAddress' = EmptyString
    /\ credentialName' = ""
    /\ selectedFile' = ""
    /\ ~loading'
    /\ net'.inflight = {}

issueFields == <<subjectAddress, credentialName, selectedFile>>

(* C18: handleIssue sets the success flag, shows the success message and   *)
(* resets the form exactly on the runs whose receipt had status 1: the     *)
(* read-back verification is entered on a status-1 receipt only, every     *)
(* way out of it is the success tail whatever the reads answered, and      *)
(* nothing else turns the flag or the success message on.  The             *)
(* verification calls getCredential at most VerifyAttempts (5) times and   *)
(* not again after a read that succeeded.  A run that ends with an error   *)
(* message leaves the form fields as they were.                            *)
C18_SuccessIffReceiptStatusOne ==
    /\ [](view = "issue" =>
            /\ net.issued["getCredential"] <= VerifyAttempts
            /\ pc = "verify" => net.issued["getCredential"] = vi + 1
            /\ IssueVerifying => ~success /\ loading /\ Call("wait", 0) \notin net.inflight
            /\ (pc = "done" /\ message.type = "success") => success
            /\ (pc = "done" /\ message.type = "error"
                   /\ net.issued["getBlockNumber"] > 0) => ~success)
    /\ [][view = "issue" =>
            /\ (IssueVerifying' /\ ~IssueVerifying) =>
                  /\ IssueWaitReply(Out("status1", E_OTHER))
                  /\ net'.inflight = {Call("getCredential", 0)}
            /\ \A out \in WaitOutcomes :
                  IssueWaitReply(out) =>
                      (IssueVerifying' <=> out.kind = "status1")
            /\ IssueVerifying =>
                  \/ IssueVerifying' /\ UNCHANGED <<success, message, issueFields, loading>>
                  \/ IssueReportsSuccess
            /\ IssueVerifyReply(TRUE) =>
                  net'.issued["getCredential"] = net.issued["getCredential"]
            /\ pc \in {"verifyIssuer", "verifySubject"} =>
                  net'.issued["getCredential"] = net.issued["getCredential"]
            /\ ((success' /\ ~success) \/ (message'.type = "success" /\ message # message')) =>
                  IssueVerifying /\ IssueReportsSuccess
            /\ (message'.type = "error" /\ pc' = "done" /\ pc \notin {"idle", "done"}) =>
                  UNCHANGED issueFields
            /\ HandleIssue => UNCHANGED issueFields /\ ~IssueVerifying']_vars

\* all five reads failed and the run still ended with the success report
C18_Witness ==
    /\ view = "issue"
    /\ pc = "done"
    /\ net.issued["getCredential"] = VerifyAttempts
    /\ "getCredential" \in net.failed
    /\ net.issued["getCredentialsByIssuer"] = 0
    /\ success
    /\ message.type = "success"
    /\ subjectAddress = EmptyString /\ credentialName = "" /\ selectedFile = ""

\* ReceiveDocument renders the record: it is past its loading screen and
\* holds a credential
RecordDisplayed == view = "receive" /\ ~loading /\ credential # NoCredential

\* the URL lacks a parameter, no account is connected, or the account is
\* not the URL's recipient
NotForThisAccount ==
    \/ searchParams.credentialId = 0
    \/ falsy(searchParams.recipient)
    \/ falsy(searchParams.issuer)
    \/ falsy(account)
    \/ /\ getAddressOk(account) /\ getAddressOk(searchParams.recipient)
       /\ ~SameAddress(account, searchParams.recipient)

(* C19: once ReceiveDocument has handled a URL that lacks credentialId,    *)
(* recipient or issuer, or was opened with no account connected or by an   *)
(* account other than the URL's recipient, it has made no contract read,   *)
(* shows no record, and has loading false and an error message.            *)
C19_NoReadNoRecordUnlessRecipient ==
    (view = "receive" /\ pc = "done" /\ NotForThisAccount) =>
        /\ TotalIssued(net) = 0
        /\ ~RecordDisplayed
        /\ ~loading
        /\ message.type = "error"

\* a record loaded from an earlier URL is still displayed after the URL
\* changed to one without parameters
C19_Witness ==
    /\ view = "receive" /\ pc = "done"
    /\ searchParams.credentialId = 0
    /\ RecordDisplayed
    /\ message = Msg("error", "Invalid share URL. Missing required parameters.")

\* the reply is a record of the chain, for the URL's recipient, whose issuer
\* is not the issuer the URL names
IssuerMismatch(rec) ==
    /\ rec.st = "ok" /\ rec.issuer # 0
    /\ SameAddress(ChainAddress(rec.subject), recipientAddress)
    /\ getAddressOk(issuerAddress)
    /\ ~SameAddress(ChainAddress(rec.issuer), issuerAddress)

(* C20: a record ReceiveDocument displays exists on chain (its issuer is   *)
(* not the zero address), its subject is the URL's recipient and that is   *)
(* the connected account; and a record for the recipient whose on-chain    *)
(* issuer differs from the URL's issuer is displayed all the same, with a  *)
(* warning (or, when revoked, the revocation message).                     *)
C20_DisplayedOnlyForRecipient ==
    /\ [](RecordDisplayed =>
            /\ credential.issuer # 0
            /\ ~falsy(account) /\ getAddressOk(account)
            /\ ~falsy(searchParams.recipient) /\ getAddressOk(searchParams.recipient)
            /\ SameAddress(searchParams.recipient, account)
            /\ SameAddress(ChainAddress(credential.subject), searchParams.recipient))
    /\ [][\A rec \in ReceiveReplies :
            (ReceiveCredReply(rec) /\ IssuerMismatch(rec)) =>
                /\ credential' = Shown(credentialId, rec)
                /\ ~loading'
                /\ ~rec.isRevoked => message'.type = "warning"]_vars

\* a record whose on-chain issuer is not the one the URL names is displayed
\* without the warning: it was compared with the issuer of the URL before
C20_Witness ==
    /\ RecordDisplayed /\ pc = "done" /\ runs = 2
    /\ ~credential.isRevoked
    /\ credential.credentialId = searchParams.credentialId
    /\ getAddressOk(issuerAddress)
    /\ ~SameAddress(ChainAddress(credential.issuer), issuerAddress)
    /\ SameAddress(ChainAddress(credential.issuer), closureIssuer)
    /\ message.type # "warning"

\* the calls that write to the contract, and what leads up to them
WriteMethods == {"getSigner", "issueCredential", "revokeCredential", "wait"}

\* the list of ids holds the id of the record displayed
HasDisplayedId(ids) == \E i \in 1 .. Len(ids) : ids[i] = credential.credentialId

(* C21: ReceiveDocument makes no contract write; handleReceive makes one   *)
(* call, the read of the account's record ids.  When the displayed         *)
(* record's id is in the list read, it shows the 'already have this        *)
(* document' notice and success stays false; when it is not, success is    *)
(* set; when the read failed, an error is shown and success stays as it    *)
(* was.  Whenever handleReceive has ended the processing flag is false.    *)
C21_ReceiveReadsOnly ==
    /\ [](view = "receive" =>
            /\ \A m \in WriteMethods : net.issued[m] = 0
            /\ pc = "rc_ids" =>
                  /\ net.inflight = {Call("getCredentialsBySubject", 0)}
                  /\ TotalIssued(net) = 1
                  /\ processing /\ ~success
            /\ pc = "done" => ~processing)
    /\ [][view = "receive" =>
            /\ HandleReceive => (pc' = "rc_ids" \/ (pc' = "done" /\ TotalIssued(net') = 0))
            /\ \A out \in IdsReplies :
                  ReceiveIdsReply(out) =>
                      /\ pc' = "done" /\ ~processing'
                      /\ net'.inflight = {} /\ TotalIssued(net') = 1
                      /\ IF ~out.ok
                         THEN message'.type = "error" /\ ~success'
                         ELSE IF HasDisplayedId(out.ids)
                         THEN message'.type = "info" /\ ~success'
                         ELSE success' /\ message'.type = "success"]_vars

\* the account already held the record displayed: the notice, no success
C21_Witness ==
    /\ view = "receive" /\ pc = "done"
    /\ RecordDisplayed
    /\ net.issued["getCredentialsBySubject"] = 1
    /\ net.failed = {} /\ net.empty = {}
    /\ message.type = "info"
    /\ ~success /\ ~processing

\* ShareDocument renders its list of records to choose from
ShareListShown == view = "share" /\ pc = "done" /\ ~loading

(* C22: once a load of ShareDocument has completed, every record of the    *)
(* list it offers was read by that load with isRevoked false; the record   *)
(* selected was taken from such a list; and a share URL on display was     *)
(* generated for the selected record and for the recipient field, which    *)
(* trimmed is a valid address.  handleGenerateUrl with any other recipient *)
(* ends with an error message and no URL.                                  *)
C22_ShareOnlyNonRevoked ==
    /\ [](ShareListShown =>
            \A i \in 1 .. Len(credentials) :
                LET r == results[credentials[i].credentialId]
                IN /\ r.st = "ok" /\ ~r.isRevoked
                   /\ credentials[i] = Shown(credentials[i].credentialId, r))
    /\ [](view = "share" =>
            /\ ~selectedCredential.isRevoked
            /\ shareUrl # NoUrl =>
                  /\ selectedCredential # NoCredential
                  /\ ValidAddress(trim(recipientAddress))
                  /\ shareUrl.credentialId = selectedCredential.credentialId
                  /\ shareUrl.recipient.who = recipientAddress.who
                  /\ shareUrl.issuer.who = selectedCredential.issuer)
    /\ [][view = "share" =>
            /\ shareUrl' # shareUrl => (HandleGenerateUrl \/ shareUrl' = NoUrl)
            /\ (HandleGenerateUrl /\ ~ValidAddress(trim(recipientAddress))) =>
                  shareUrl' = NoUrl /\ message'.type = "error"
            /\ selectedCredential' # selectedCredential =>
                  /\ ShareListShown
                  /\ \E i \in 1 .. Len(credentials) : selectedCredential' = credentials[i]]_vars

\* a URL was generated for a selected record and a recipient typed with
\* white space around a valid address
C22_Witness ==
    /\ ShareListShown
    /\ Len(credentials) > 0
    /\ selectedCredential = credentials[1]
    /\ recipientAddress = Str(1, "check", TRUE, TRUE)
    /\ shareUrl = Params(selectedCredential.credentialId,
                         Str(1, "check", TRUE, FALSE), Str(2, "check", TRUE, FALSE))
    /\ message.type = "success"

\* the k-th loadCredentials call in flight ends in this step
LoadSettles(k) == k \in 1 .. Len(loads) /\ loads' = Without(loads, k)

(* C23: when a loadCredentials call of MyDocuments ends that was in flight *)
(* together with another call or with an account change, a list on display *)
(* that was fetched for the current account is not replaced by one fetched *)
(* for another account; and when it is the last call in flight, the list   *)
(* on display is the one fetched for the current account and loading is    *)
(* false.                                                                  *)
C23_CurrentAccountListWins ==
    [][view = "mydocs" =>
          \A k \in 1 .. Len(loads) :
              (LoadSettles(k) /\ loads[k].raced) =>
                  /\ shownFor = account => shownFor' = account
                  /\ loads' = <<>> => (~loading' /\ shownFor' = account)]_vars

\* every call has ended, and the list on display is the one a call made for
\* the previous account fetched
C23_Witness ==
    /\ view = "mydocs" /\ runs = MaxRaceLoads
    /\ loads = <<>> /\ timers = <<>>
    /\ ~loading
    /\ shownFor # account
    /\ ~falsy(account) /\ getAddressOk(account)
    /\ Len(credentials) > 0
    /\ \A i \in 1 .. Len(credentials) : credentials[i].subject = shownFor.who

====
